---- MODULE Spec2Model ----
(***************************************************************************)
(* Descriptor-ring DMA transfer engine for the CoreAXI4DMAController.      *)
(*                                                                         *)
(* The CPU side is translated from the C sources; the controller hardware  *)
(* and the Linux UIO interrupt facility are the environment.  A CONFIG     *)
(* word is modelled as the set of its flag bits, the interrupt status      *)
(* register as its low flag bits plus the 6-bit index field.               *)
(***************************************************************************)
EXTENDS Integers, Sequences, FiniteSets, TLC

\* ---------------------------------------------------------------- bounds
MaxRing == 3
MaxTransfers == 4

\* ------------------------------------------------------ program constants
NumDescriptors == 32
NumStreamRegs == 4

DescIdx == 0 .. (NumDescriptors - 1)
StreamIdx == 0 .. (NumStreamRegs - 1)

\* Internal descriptor CONFIG bits (bit 0 / bit 2: increment modes).
MEM_FLAG_CHAIN == "CHAIN"
MEM_FLAG_IRQ_ON_PROCESS == "IRQ_ON_PROCESS"
MEM_FLAG_SRC_RDY == "SRC_RDY"
MEM_FLAG_DEST_RDY == "DEST_RDY"
MEM_FLAG_VALID == "VALID"
MEM_CONF_BASE == {"SRC_INCR", "DEST_INCR", MEM_FLAG_CHAIN, MEM_FLAG_IRQ_ON_PROCESS}

\* Interrupt status / mask / clear bits 0..3.
FDMA_IRQ_STAT_WR_ERR == "WR_ERR"
FDMA_IRQ_STAT_INVALID_DESC == "INVALID_DESC"
FDMA_IRQ_MASK_ALL == {"OPS_COMPLETE", "WR_ERR", "BIT2", "INVALID_DESC"}
\* (faulty variant: a clear mask of bit 0 alone)
FDMA_IRQ_CLEAR_OPS == {"OPS_COMPLETE"}
FDMA_IRQ_CLEAR_ALL == {"OPS_COMPLETE", "WR_ERR", "BIT2", "INVALID_DESC"}

VARIABLES
    routine,        \* which routine the CPU runs
    pc,             \* the CPU's position in it
    numBuffers,     \* NUM_BUFFERS: ring size
    num_transfers,  \* requested number of completions
    i,              \* transfer loop counter
    j,              \* configuration loop counter
    descConfig,     \* DESCRIPTOR[k].CONFIG_REG as the set of its flag bits
    descNext,       \* DESCRIPTOR[k].NEXT_DESC_ADDR_REG
    bodyWritten,    \* descriptors whose address/count/next fields are written
    streamAddr,     \* STREAM_ADDR_REG[0..3]
    startReg,       \* last value written to START_OPERATION_REG
    maskReg,        \* INTR_0_MASK_REG
    status,         \* INTR_0_STAT_REG: [flags, idx]
    ctrlConfig,     \* controller CONFIG_REG bit 0 (firmware register map)
    hwRunning,      \* internal channel 0 has been started and not run dry
    hwCur,          \* descriptor the hardware is at
    uioPending,     \* UIO event not yet read
    uioEnabled,     \* UIO interrupt line enabled
    st,             \* the status value the CPU read
    completed_desc, \* index decoded from st
    observed,       \* completed indices seen by the loop, in order
    raised,         \* completions raised by the hardware
    streamDesc,     \* CONFIG flags of the stream descriptor in DRAM
    srcStarted,     \* the AXI stream source has been started
    outcome,        \* what the routine reported: "none", "ok", "fail", "timeout", "error"
    runs,           \* invocations of the routine so far
    stopCalls,      \* calls of the stop routine made so far
    afterFirst,     \* controller registers as the first of those calls left them
    resetPulses,    \* low-then-high pulses of the controller's reset bit
    beforeStop,     \* controller registers before the first of those calls
    lateIrq,        \* a completion was raised after a wait had timed out
    streamRunning,  \* stream channel 0 has been started and has not reported
    inflight,       \* descriptor of a transfer under way before the routine began, or -1
    st1,            \* the first of the two status reads of DMA_GetInterruptStatus
    streamChain,    \* CONFIG flags of stream descriptors 1 .. NUM_BUFFERS-1 in DRAM
    irqsRead,       \* interrupts the routine consumed since it started the stream channel
    dma_id,         \* dma_id passed to the continuous-stream driver
    descriptor_id,  \* descriptor_id passed to dma_start_transfer
    g_dma_completed_buffer_flag, \* set by the PLIC handler, cleared by the main loop
    irqLine,        \* the controller's interrupt line to the PLIC is asserted
    lastFilled,     \* descriptor whose buffer the controller filled last, or -1
    buffer_size,    \* BUFFER_SIZE: the byte count asked for each slot
    descCount,      \* DESCRIPTOR[k].BYTE_COUNT_REG
    channel_num,    \* channel_num passed to dma_start_channel
    streamWords,    \* words of each stream descriptor as the CPU last wrote them
    unfenced,       \* kinds of descriptor stores issued since the last memory barrier
    destFilled,     \* slots whose destination buffer holds the contents of its source buffer
    beforeReset,    \* status flags pending when dma_reset_interrupts was called
    access,         \* byte ranges of the DMA buffer the current step addresses
    handlerCalls,   \* invocations of the PLIC handler so far
    passes,         \* buffer-ready passes of the main loop so far
    testedAt,       \* handler invocations made when the main loop last found the flag set
    mem_fd,         \* static mem_fd, followed through runs of the mapping interface: -1 when closed
    dma_regs,       \* static dma_regs, followed likewise: 0 for NULL
    lastCall,       \* the last call of the mapping interface: function, system calls made, value returned
    apiCalls        \* calls of the mapping interface made so far

vars == << routine, pc, numBuffers, num_transfers, i, j, descConfig, descNext,
           bodyWritten,
           streamAddr, startReg, maskReg, status, ctrlConfig, hwRunning, hwCur,
           uioPending, uioEnabled, st, completed_desc, observed, raised,
           streamDesc, srcStarted, outcome, runs, stopCalls, afterFirst,
           resetPulses, beforeStop, lateIrq, streamRunning, inflight, st1,
           streamChain, irqsRead, dma_id, descriptor_id,
           g_dma_completed_buffer_flag, irqLine, lastFilled, buffer_size,
           descCount, channel_num, streamWords, unfenced, destFilled,
           beforeReset, access, handlerCalls, passes, testedAt, mem_fd,
           dma_regs, lastCall, apiCalls >>

\* Variables only the stream, continuous and ring routines touch.
streamVars == << inflight, st1, streamChain, irqsRead, dma_id, descriptor_id,
                 g_dma_completed_buffer_flag, irqLine, lastFilled,
                 buffer_size, descCount, channel_num, streamWords >>

\* Variables only the routines further below touch.
moreVars == << streamVars, unfenced, destFilled, beforeReset, access, handlerCalls,
           passes, testedAt, mem_fd, dma_regs, lastCall, apiCalls >>

\* Variables the ping-pong run never touches.
hwKeep == << streamDesc, srcStarted, outcome, runs, stopCalls, afterFirst,
             resetPulses, beforeStop, streamRunning, moreVars >>
otherVars == << hwKeep, lateIrq >>

NoStatus == [flags |-> {}, idx |-> 0]

\* ------------------------------------------------------ register helpers
\* The 32 descriptor blocks are kept as maps holding the non-zero registers
\* only: a descriptor outside the map's domain reads as 0.
Cfg(d, k) == IF k \in DOMAIN d THEN d[k] ELSE {}
Nxt(d, k) == IF k \in DOMAIN d THEN d[k] ELSE 0
Put(d, k, v, zero) ==
    IF v = zero THEN [x \in DOMAIN d \ {k} |-> d[x]]
    ELSE [x \in DOMAIN d \cup {k} |-> IF x = k THEN v ELSE d[x]]

SetConfig(d, k, c) == Put(d, k, c, {})
OrConfig(d, k, bits) == Put(d, k, Cfg(d, k) \cup bits, {})
AndNotConfig(d, k, bits) == Put(d, k, Cfg(d, k) \ bits, {})

\* (status >> 4) & 0x3F
CompletedDesc(s) == s.idx % 64

\* (completed_desc + 1) % NUM_BUFFERS
\* (faulty variant: the completed descriptor itself)
NextDescToArmOff(k) == k % numBuffers
NextDescToArm(k) == (k + 1) % numBuffers

\* for (i..32) CONFIG_REG = 0; for (i..4) STREAM_ADDR_REG = 0
\* Faulty variants: a loop that ends at i < 31, and CONFIG_REG ^= VALID in
\* place of CONFIG_REG = 0.
StoppedDescShort(d) == [k \in DOMAIN d \cap {NumDescriptors - 1} |-> d[k]]
StoppedDescXor(d) ==
    [k \in {x \in DescIdx : Cfg(d, x) # {MEM_FLAG_VALID}} |->
        IF MEM_FLAG_VALID \in Cfg(d, k) THEN Cfg(d, k) \ {MEM_FLAG_VALID}
        ELSE Cfg(d, k) \cup {MEM_FLAG_VALID}]
StoppedDesc(d) == [k \in {} |-> {}]
\* (faulty variant: only STREAM_ADDR_REG[0] is zeroed)
StoppedStreamFirst == [k \in StreamIdx |-> IF k = 0 THEN 0 ELSE streamAddr[k]]
StoppedStream == [k \in StreamIdx |-> 0]

\* INTR_0_CLEAR_REG = mask (write-1-to-clear of the status flag bits)
ClearedStatus(s, mask) == [s EXCEPT !.flags = @ \ mask]

\* ------------------------------------------------------------- hardware
\* The controller transfers the descriptor it is at only when VALID,
\* SRC_DATA_VALID and DEST_DATA_READY are all set.
HwReady(d, k) == {MEM_FLAG_VALID, MEM_FLAG_SRC_RDY, MEM_FLAG_DEST_RDY} \subseteq Cfg(d, k)

\* One descriptor transferred: both ready bits cleared, completion reported in
\* the status register, NEXT_DESC followed when CHAIN is set.
HwProcess ==
    /\ hwRunning
    /\ lateIrq' = (lateIrq \/ outcome = "timeout")
    /\ HwReady(descConfig, hwCur)
    /\ descConfig' = AndNotConfig(descConfig, hwCur, {MEM_FLAG_SRC_RDY, MEM_FLAG_DEST_RDY})
    /\ status' = IF MEM_FLAG_IRQ_ON_PROCESS \in Cfg(descConfig, hwCur)
                 THEN [flags |-> status.flags \cup {"OPS_COMPLETE"}, idx |-> hwCur]
                 ELSE status
    /\ raised' = IF MEM_FLAG_IRQ_ON_PROCESS \in Cfg(descConfig, hwCur)
                 THEN raised + 1 ELSE raised
    /\ IF MEM_FLAG_CHAIN \in Cfg(descConfig, hwCur)
       THEN hwCur' = Nxt(descNext, hwCur) /\ hwRunning' = TRUE
       ELSE hwCur' = hwCur /\ hwRunning' = FALSE
    /\ destFilled' = destFilled \cup {hwCur}
    /\ UNCHANGED << streamDesc, srcStarted, outcome, runs, stopCalls,
                    afterFirst, resetPulses, beforeStop, streamRunning,
                    streamVars, unfenced, descNext, routine, pc, numBuffers,
                    num_transfers, i, j, bodyWritten, streamAddr, startReg,
                    maskReg, ctrlConfig, uioPending, uioEnabled, st,
                    completed_desc, observed, beforeReset, access,
                    handlerCalls, passes, testedAt, mem_fd, dma_regs,
                    lastCall, apiCalls >>

\* The transfer fails: the controller reports write_err or invalid_desc for the
\* descriptor it is at and halts the channel.
HwFault ==
    /\ hwRunning
    /\ lateIrq' = (lateIrq \/ outcome = "timeout")
    /\ HwReady(descConfig, hwCur)
    /\ \E kind \in {FDMA_IRQ_STAT_WR_ERR, FDMA_IRQ_STAT_INVALID_DESC} :
         status' = [flags |-> status.flags \cup {kind}, idx |-> hwCur]
    /\ hwRunning' = FALSE
    /\ UNCHANGED << hwKeep, descNext, routine, pc, numBuffers, num_transfers,
                    i, j, descConfig, bodyWritten, streamAddr, startReg,
                    maskReg, ctrlConfig, hwCur, uioPending, uioEnabled, st,
                    completed_desc, observed, raised >>

\* Linux UIO: the level interrupt (a pending, unmasked status bit) fires while
\* the line is enabled; the kernel handler counts the event and disables the
\* line until user space writes 1 to the device.
IrqLine == (status.flags \cap maskReg) # {}

KernelIrq ==
    /\ uioEnabled
    /\ IrqLine
    /\ uioPending' = TRUE
    /\ uioEnabled' = FALSE
    /\ UNCHANGED << otherVars, descNext, routine, pc, numBuffers,
                    num_transfers, i, j, descConfig, bodyWritten, streamAddr,
                    startReg, maskReg, status, ctrlConfig, hwRunning, hwCur,
                    st, completed_desc, observed, raised >>

\* ------------------------------------------------- ping-pong: set-up steps
idVars == << routine, numBuffers, num_transfers >>
hwVars == << hwRunning, hwCur, raised >>
uioVars == << uioPending, uioEnabled >>
loopVars == << i, st, completed_desc, observed >>

\* exhaustive_interrupt_reset (UIO variant): stop, mask off, drain the UIO
\* handle, clear the pending bits, re-enable the UIO line.
\* dma_reset_interrupts (bare-metal variant): mask off, clear the pending bits.
PP_Reset ==
    /\ pc = "reset"
    /\ IF routine = "pp_uio"
       THEN /\ descConfig' = StoppedDesc(descConfig)
            /\ streamAddr' = StoppedStream
            /\ uioPending' = FALSE
            /\ uioEnabled' = TRUE
       ELSE UNCHANGED << descConfig, streamAddr, uioPending, uioEnabled >>
    /\ maskReg' = {}
    /\ status' = ClearedStatus(status, FDMA_IRQ_CLEAR_ALL)
    /\ j' = 0
    /\ pc' = "cfg_body"
    /\ unfenced' = {}
    /\ UNCHANGED << streamDesc, srcStarted, outcome, runs, stopCalls,
                    afterFirst, resetPulses, beforeStop, streamRunning,
                    streamVars, lateIrq, descNext, idVars, hwVars, loopVars,
                    bodyWritten, startReg, ctrlConfig, destFilled,
                    beforeReset, access, handlerCalls, passes, testedAt,
                    mem_fd, dma_regs, lastCall, apiCalls >>

\* SOURCE_ADDR, DEST_ADDR, BYTE_COUNT and NEXT_DESC_ADDR of descriptor j.
\* dma_configure_m2m_descriptor returns at once for an index above 31.
\* (faulty variant: the last descriptor points past the ring)
next_desc_linear(n) == n + 1
next_desc(n) == (n + 1) % numBuffers

PP_CfgBody ==
    /\ pc = "cfg_body"
    /\ IF routine = "pp_rh" /\ j > 31
       THEN UNCHANGED << descNext, bodyWritten >>
       ELSE /\ descNext' = Put(descNext, j, next_desc(j), 0)
            /\ bodyWritten' = bodyWritten \cup {j}
    /\ pc' = "cfg_conf"
    /\ unfenced' = IF routine = "pp_rh" /\ j > 31 THEN unfenced
                   ELSE unfenced \cup {"body"}
    /\ UNCHANGED << streamDesc, srcStarted, outcome, runs, stopCalls,
                    afterFirst, resetPulses, beforeStop, streamRunning,
                    streamVars, lateIrq, idVars, hwVars, uioVars, loopVars, j,
                    descConfig, streamAddr, startReg, maskReg, status,
                    ctrlConfig, destFilled, beforeReset, access, handlerCalls,
                    passes, testedAt, mem_fd, dma_regs, lastCall, apiCalls >>

\* The CONFIG word each variant writes, in one store, to descriptor j.
\* (faulty variant: DEST_RDY set on every descriptor at configuration)
UioConfigWordReady ==
    MEM_CONF_BASE \cup {MEM_FLAG_SRC_RDY, MEM_FLAG_DEST_RDY, MEM_FLAG_VALID}
UioConfigWord == MEM_CONF_BASE \cup {MEM_FLAG_SRC_RDY, MEM_FLAG_VALID}
M2MConfigWord(chain) ==
    {"SRC_INCR", "DEST_INCR", MEM_FLAG_IRQ_ON_PROCESS, MEM_FLAG_VALID}
        \cup (IF chain THEN {MEM_FLAG_CHAIN} ELSE {})

PP_CfgConf ==
    /\ pc = "cfg_conf"
    /\ IF routine = "pp_uio"
       THEN descConfig' = SetConfig(descConfig, j, UioConfigWord)
       ELSE IF j > 31 THEN descConfig' = descConfig
            ELSE descConfig' = SetConfig(descConfig, j, M2MConfigWord(TRUE))
    /\ j' = j + 1
    /\ pc' = IF j + 1 < numBuffers THEN "cfg_body" ELSE "mask"
    /\ unfenced' = IF j + 1 >= numBuffers THEN {}
                   ELSE IF routine = "pp_rh" /\ j > 31 THEN unfenced
                   ELSE unfenced \cup {"config"}
    /\ UNCHANGED << streamDesc, srcStarted, outcome, runs, stopCalls,
                    afterFirst, resetPulses, beforeStop, streamRunning,
                    streamVars, lateIrq, descNext, idVars, hwVars, uioVars,
                    loopVars, bodyWritten, streamAddr, startReg, maskReg,
                    status, ctrlConfig, destFilled, beforeReset, access,
                    handlerCalls, passes, testedAt, mem_fd, dma_regs,
                    lastCall, apiCalls >>

\* INTR_0_MASK_REG = FDMA_IRQ_MASK_ALL
PP_Mask ==
    /\ pc = "mask"
    /\ maskReg' = FDMA_IRQ_MASK_ALL
    /\ pc' = "arm0"
    /\ UNCHANGED << otherVars, descNext, idVars, hwVars, uioVars, loopVars, j,
                    descConfig, bodyWritten, streamAddr, startReg, status,
                    ctrlConfig >>

\* DESCRIPTOR[0].CONFIG_REG |= DEST_RDY (UIO) or SRC_RDY | DEST_RDY (bare metal)
\* (faulty variant: the first descriptor's destination is never marked ready)
Arm0BitsSrcOnly == {MEM_FLAG_SRC_RDY}
Arm0Bits == IF routine = "pp_uio" THEN {MEM_FLAG_DEST_RDY}
            ELSE {MEM_FLAG_SRC_RDY, MEM_FLAG_DEST_RDY}

PP_Arm0 ==
    /\ pc = "arm0"
    /\ descConfig' = OrConfig(descConfig, 0, Arm0Bits)
    /\ pc' = "start"
    /\ unfenced' = {}
    /\ UNCHANGED << streamDesc, srcStarted, outcome, runs, stopCalls,
                    afterFirst, resetPulses, beforeStop, streamRunning,
                    streamVars, lateIrq, descNext, idVars, hwVars, uioVars,
                    loopVars, j, bodyWritten, streamAddr, startReg, maskReg,
                    status, ctrlConfig, destFilled, beforeReset, access,
                    handlerCalls, passes, testedAt, mem_fd, dma_regs,
                    lastCall, apiCalls >>

\* START_OPERATION_REG = FDMA_START_MEM(0): channel 0 starts at descriptor 0.
PP_Start ==
    /\ pc = "start"
    /\ startReg' = {0}
    /\ hwRunning' = TRUE
    /\ hwCur' = 0
    /\ i' = 0
    /\ pc' = IF num_transfers > 0 THEN "wait" ELSE "stop"
    /\ UNCHANGED << otherVars, descNext, idVars, uioVars, j, descConfig,
                    bodyWritten, streamAddr, maskReg, status, ctrlConfig,
                    raised, st, completed_desc, observed >>

\* ------------------------------------------------ ping-pong: transfer loop
\* UIO variant: read(dma_uio_fd) blocks until an event is pending, with no
\* deadline; then INTR_0_STAT_REG is read and the index decoded.
PP_WaitUio ==
    /\ routine = "pp_uio"
    /\ pc = "wait"
    /\ uioPending
    /\ uioPending' = FALSE
    /\ pc' = "rdstat"
    /\ UNCHANGED << otherVars, descNext, idVars, hwVars, loopVars, j,
                    descConfig, bodyWritten, streamAddr, startReg, maskReg,
                    status, ctrlConfig, uioEnabled >>

PP_ReadStatus ==
    /\ routine = "pp_uio"
    /\ pc = "rdstat"
    /\ st' = status
    /\ completed_desc' = CompletedDesc(status)
    /\ observed' = Append(observed, CompletedDesc(status))
    /\ pc' = IF i < num_transfers - 1 THEN "rearm" ELSE "lastchain"
    /\ UNCHANGED << otherVars, descNext, idVars, hwVars, uioVars, i, j,
                    descConfig, bodyWritten, streamAddr, startReg, maskReg,
                    status, ctrlConfig >>

\* Bare-metal variant: dma_wait_for_interrupt spins until a status flag bit is
\* set and returns the value it read.
PollSeesInterruptAny(s) == TRUE
PollSeesInterrupt(s) == (s.flags \cap FDMA_IRQ_MASK_ALL) # {}

PP_WaitPoll ==
    /\ routine = "pp_rh"
    /\ pc = "wait"
    /\ PollSeesInterrupt(status)
    /\ st' = status
    /\ completed_desc' = CompletedDesc(status)
    /\ observed' = Append(observed, CompletedDesc(status))
    /\ pc' = IF i < num_transfers - 1 THEN "rearm_src" ELSE "lastchain"
    /\ UNCHANGED << otherVars, descNext, idVars, hwVars, uioVars, i, j,
                    descConfig, bodyWritten, streamAddr, startReg, maskReg,
                    status, ctrlConfig >>

\* UIO variant: DESCRIPTOR[next].CONFIG_REG |= DEST_RDY | SRC_RDY
PP_Rearm ==
    /\ routine = "pp_uio"
    /\ pc = "rearm"
    /\ descConfig' = OrConfig(descConfig, NextDescToArm(completed_desc),
                        {MEM_FLAG_DEST_RDY, MEM_FLAG_SRC_RDY})
    /\ pc' = "clear"
    /\ unfenced' = {}
    /\ UNCHANGED << streamDesc, srcStarted, outcome, runs, stopCalls,
                    afterFirst, resetPulses, beforeStop, streamRunning,
                    streamVars, lateIrq, descNext, idVars, hwVars, uioVars,
                    loopVars, j, bodyWritten, streamAddr, startReg, maskReg,
                    status, ctrlConfig, destFilled, beforeReset, access,
                    handlerCalls, passes, testedAt, mem_fd, dma_regs,
                    lastCall, apiCalls >>

\* Bare-metal variant: DESCRIPTOR[completed].CONFIG_REG |= SRC_RDY, then
\* DESCRIPTOR[next].CONFIG_REG |= DEST_RDY.
PP_RearmSrc ==
    /\ routine = "pp_rh"
    /\ pc = "rearm_src"
    /\ descConfig' = OrConfig(descConfig, completed_desc, {MEM_FLAG_SRC_RDY})
    /\ pc' = "rearm_dst"
    /\ unfenced' = unfenced \cup {"config"}
    /\ UNCHANGED << streamDesc, srcStarted, outcome, runs, stopCalls,
                    afterFirst, resetPulses, beforeStop, streamRunning,
                    streamVars, lateIrq, descNext, idVars, hwVars, uioVars,
                    loopVars, j, bodyWritten, streamAddr, startReg, maskReg,
                    status, ctrlConfig, destFilled, beforeReset, access,
                    handlerCalls, passes, testedAt, mem_fd, dma_regs,
                    lastCall, apiCalls >>

PP_RearmDst ==
    /\ routine = "pp_rh"
    /\ pc = "rearm_dst"
    /\ descConfig' = OrConfig(descConfig, NextDescToArm(completed_desc), {MEM_FLAG_DEST_RDY})
    /\ pc' = "clear"
    /\ unfenced' = {}
    /\ UNCHANGED << streamDesc, srcStarted, outcome, runs, stopCalls,
                    afterFirst, resetPulses, beforeStop, streamRunning,
                    streamVars, lateIrq, descNext, idVars, hwVars, uioVars,
                    loopVars, j, bodyWritten, streamAddr, startReg, maskReg,
                    status, ctrlConfig, destFilled, beforeReset, access,
                    handlerCalls, passes, testedAt, mem_fd, dma_regs,
                    lastCall, apiCalls >>

\* Final requested cycle: DESCRIPTOR[completed].CONFIG_REG &= ~CHAIN
\* (faulty variant: the final cycle re-arms the next descriptor as the
\* earlier cycles do)
LastCycleConfigRearm(d, k) ==
    OrConfig(d, NextDescToArm(k), {MEM_FLAG_DEST_RDY, MEM_FLAG_SRC_RDY})
LastCycleConfig(d, k) == AndNotConfig(d, k, {MEM_FLAG_CHAIN})

PP_LastChain ==
    /\ pc = "lastchain"
    /\ descConfig' = LastCycleConfig(descConfig, completed_desc)
    /\ pc' = "clear"
    /\ unfenced' = {}
    /\ UNCHANGED << streamDesc, srcStarted, outcome, runs, stopCalls,
                    afterFirst, resetPulses, beforeStop, streamRunning,
                    streamVars, lateIrq, descNext, idVars, hwVars, uioVars,
                    loopVars, j, bodyWritten, streamAddr, startReg, maskReg,
                    status, ctrlConfig, destFilled, beforeReset, access,
                    handlerCalls, passes, testedAt, mem_fd, dma_regs,
                    lastCall, apiCalls >>

\* INTR_0_CLEAR_REG = FDMA_IRQ_CLEAR_ALL; the bare-metal loop then iterates.
PP_Clear ==
    /\ pc = "clear"
    /\ status' = ClearedStatus(status, FDMA_IRQ_CLEAR_ALL)
    /\ IF routine = "pp_uio"
       THEN pc' = "enable" /\ i' = i
       ELSE /\ i' = i + 1
            /\ pc' = IF i + 1 < num_transfers THEN "wait" ELSE "stop"
    /\ UNCHANGED << otherVars, descNext, idVars, hwVars, uioVars, j,
                    descConfig, bodyWritten, streamAddr, startReg, maskReg,
                    ctrlConfig, st, completed_desc, observed >>

\* write(dma_uio_fd, &irq_enable): the UIO line is enabled again.
PP_Enable ==
    /\ routine = "pp_uio"
    /\ pc = "enable"
    /\ uioEnabled' = TRUE
    /\ i' = i + 1
    /\ pc' = IF i + 1 < num_transfers THEN "wait" ELSE "stop"
    /\ UNCHANGED << otherVars, descNext, idVars, hwVars, j, descConfig,
                    bodyWritten, streamAddr, startReg, maskReg, status,
                    ctrlConfig, uioPending, st, completed_desc, observed >>

\* force_dma_stop / dma_force_stop after the loop.
PP_Stop ==
    /\ pc = "stop"
    /\ descConfig' = StoppedDesc(descConfig)
    /\ streamAddr' = StoppedStream
    /\ pc' = "done"
    /\ unfenced' = {}
    /\ UNCHANGED << streamDesc, srcStarted, outcome, runs, stopCalls,
                    afterFirst, resetPulses, beforeStop, streamRunning,
                    streamVars, lateIrq, descNext, idVars, hwVars, uioVars,
                    loopVars, j, bodyWritten, startReg, maskReg, status,
                    ctrlConfig, destFilled, beforeReset, access, handlerCalls,
                    passes, testedAt, mem_fd, dma_regs, lastCall, apiCalls >>

PP_Cpu ==
    \/ PP_Reset \/ PP_CfgBody \/ PP_CfgConf \/ PP_Mask \/ PP_Arm0 \/ PP_Start
    \/ PP_WaitUio \/ PP_ReadStatus \/ PP_WaitPoll
    \/ PP_Rearm \/ PP_RearmSrc \/ PP_RearmDst \/ PP_LastChain
    \/ PP_Clear \/ PP_Enable \/ PP_Stop

\* ---------------------------------------------------- ping-pong: the run
\* The variables of the later routines at rest.
InitMore ==
    /\ inflight = -1
    /\ st1 = NoStatus
    /\ streamChain = [k \in {} |-> {}]
    /\ irqsRead = 0
    /\ dma_id = 0
    /\ descriptor_id = 0
    /\ g_dma_completed_buffer_flag = 0
    /\ irqLine = FALSE
    /\ lastFilled = -1
    /\ buffer_size = 4096
    /\ descCount = [k \in {} |-> 0]
    /\ channel_num = 0
    /\ streamWords = [k \in {} |-> << >>]
    /\ unfenced = {}
    /\ destFilled = {}
    /\ beforeReset = {}
    /\ access = {}
    /\ handlerCalls = 0
    /\ passes = 0
    /\ testedAt = 0
    /\ mem_fd = -1
    /\ dma_regs = 0
    /\ lastCall = [fn |-> "none", sys |-> << >>, ret |-> 0]
    /\ apiCalls = 0

InitRegs ==
    /\ descConfig = [k \in {} |-> {}]
    /\ descNext = [k \in {} |-> 0]
    /\ bodyWritten = {}
    /\ streamAddr = [k \in StreamIdx |-> 0]
    /\ startReg = {}
    /\ maskReg = {}
    /\ status = NoStatus
    /\ ctrlConfig = 0
    /\ hwRunning = FALSE
    /\ hwCur = 0
    /\ uioPending = FALSE
    /\ uioEnabled = TRUE
    /\ raised = 0
    /\ streamDesc = {}
    /\ srcStarted = FALSE
    /\ outcome = "none"
    /\ runs = 0
    /\ stopCalls = 0
    /\ afterFirst = << >>
    /\ resetPulses = 0
    /\ beforeStop = << >>
    /\ lateIrq = FALSE
    /\ streamRunning = FALSE
    /\ InitMore

InitPP ==
    /\ routine \in {"pp_uio", "pp_rh"}
    /\ numBuffers \in 1 .. MaxRing
    /\ num_transfers \in 1 .. MaxTransfers
    /\ pc = "reset"
    /\ i = 0
    /\ j = 0
    /\ st = NoStatus
    /\ completed_desc = 0
    /\ observed = << >>
    /\ InitRegs

NextPP == PP_Cpu \/ HwProcess \/ KernelIrq

SpecPP == InitPP /\ [][NextPP]_vars

\* The CPU runs whenever it can; the controller transfers a ready descriptor;
\* the kernel delivers an enabled, pending interrupt.
FairSpecPP ==
    SpecPP /\ WF_vars(PP_Cpu) /\ WF_vars(HwProcess) /\ WF_vars(KernelIrq)

NextErr == PP_Cpu \/ HwProcess \/ KernelIrq \/ HwFault

SpecErr == InitPP /\ [][NextErr]_vars

\* ------------------------------------------------------------ properties
CpuStep == pc' # pc
LoopPcs == {"wait", "rdstat", "rearm", "rearm_src", "rearm_dst", "lastchain",
            "clear", "enable"}
SetsDestRdy(k) ==
    MEM_FLAG_DEST_RDY \notin Cfg(descConfig, k) /\ MEM_FLAG_DEST_RDY \in Cfg(descConfig', k)

\* C1: in the transfer loop, on every cycle but the last requested one, the
\* CPU's re-arm write puts DEST_DATA_READY into the CONFIG of descriptor
\* (k+1) mod N, k being the index decoded from the status register, and no CPU
\* step of the loop sets DEST_DATA_READY on any other descriptor.
C1_RearmIsSuccessor ==
    [][ (CpuStep /\ pc \in LoopPcs) =>
          /\ (pc \in {"rearm", "rearm_dst"} /\ i < num_transfers - 1) =>
                MEM_FLAG_DEST_RDY \in
                    Cfg(descConfig', (completed_desc + 1) % numBuffers)
          /\ \A k \in DescIdx :
                SetsDestRdy(k) =>
                    /\ i < num_transfers - 1
                    /\ k = (completed_desc + 1) % numBuffers ]_vars

\* C1 witness: the UIO loop has re-armed slot 0 after the last slot of a ring of
\* at least two completed, on a cycle that is not the last.
C1_Witness ==
    /\ routine = "pp_uio"
    /\ pc = "clear"
    /\ numBuffers >= 2
    /\ i < num_transfers - 1
    /\ completed_desc = numBuffers - 1
    /\ MEM_FLAG_DEST_RDY \in Cfg(descConfig, 0)

RECURSIVE RingOrderFrom(_, _)
RingOrderFrom(seq, n) ==
    IF n > Len(seq) THEN TRUE
    ELSE seq[n] = (n - 1) % numBuffers /\ RingOrderFrom(seq, n + 1)
RingOrder(seq) == RingOrderFrom(seq, 1)

VisitCount(seq, k) == Cardinality({n \in 1 .. Len(seq) : seq[n] = k})

\* C2: for M >= N the loop observes all M completions, in ring order
\* 0,1,..,N-1,0,.., so every slot completes floor(M/N) or ceil(M/N) times.
C2_RingOrderComplete ==
    /\ [](RingOrder(observed))
    /\ (num_transfers >= numBuffers) =>
          <>( /\ pc = "done"
              /\ Len(observed) = num_transfers
              /\ \A k \in 0 .. (numBuffers - 1) :
                    VisitCount(observed, k) \in
                        { num_transfers \div numBuffers,
                          (num_transfers + numBuffers - 1) \div numBuffers } )

\* C3: a completion the hardware has raised and no loop iteration has consumed
\* yet is still visible to the next wait (the status bit is set, or the UIO
\* event is pending): the interrupt-clear write never erases it.
C3_NoLostCompletion ==
    (raised > Len(observed)) => ("OPS_COMPLETE" \in status.flags \/ uioPending)

\* C4: rh_dma_run_m2m_ping_pong_test terminates: whenever its wait has nothing
\* pending (and every completion raised so far has been consumed), the
\* descriptor the hardware has reached has both ready bits set, so the awaited
\* completion will come.
C4_WaitIsServed ==
    ( /\ routine = "pp_rh"
      /\ pc = "wait"
      /\ ~PollSeesInterrupt(status)
      /\ raised = Len(observed) ) =>
        (hwRunning /\ HwReady(descConfig, hwCur))

\* C5: VALID enters a CONFIG word only by a write that changes nothing else
\* in that word (a separate OR-in after the body), the body fields being
\* written before, and no body field is written once VALID is set.
C5_ValidIsSeparateWrite ==
    [][ \A k \in DescIdx :
          /\ (MEM_FLAG_VALID \notin Cfg(descConfig, k) /\ MEM_FLAG_VALID \in Cfg(descConfig', k))
                => /\ Cfg(descConfig', k) = Cfg(descConfig, k) \cup {MEM_FLAG_VALID}
                   /\ k \in bodyWritten
          /\ (MEM_FLAG_VALID \in Cfg(descConfig, k)) => Nxt(descNext', k) = Nxt(descNext, k)
      ]_vars

ErrStatus(s) == (s.flags \cap {FDMA_IRQ_STAT_WR_ERR, FDMA_IRQ_STAT_INVALID_DESC}) # {}
AfterReadPcs == {"rearm", "rearm_src", "rearm_dst", "lastchain", "clear", "enable"}

\* C10: when the status read for a cycle has write_err or invalid_desc set,
\* the loop does not go on as for a normal completion: it writes no descriptor
\* CONFIG (no re-arm) and does not count the cycle as completed.
C10_ErrorNotSwallowed ==
    [][ (CpuStep /\ pc \in AfterReadPcs /\ ErrStatus(st)) =>
            (descConfig' = descConfig /\ i' = i) ]_vars


\* ------------------------------------------------------- the stop routines
\* How many times in a row the stop routine is called.
MaxStopCalls == 2

\* The controller registers a stop routine can write.
StopRegs == << descConfig, streamAddr, startReg, ctrlConfig >>

\* CONFIG_REG &= ~1 and CONFIG_REG |= 1 of the controller's CONFIG register.
ClearBit0(c) == c - (c % 2)
SetBit0(c) == c - (c % 2) + 1

stopKeep == << routine, pc, numBuffers, num_transfers, i, j, descNext, bodyWritten,
               maskReg, status, hwRunning, hwCur, uioPending, uioEnabled, st,
               completed_desc, observed, raised, streamDesc, srcStarted,
               outcome, runs, lateIrq, streamRunning, moreVars >>

\* Bookkeeping of the caller: count the call, remember the registers
\* before the first call and as the first call left them.
StopReturns ==
    /\ stopCalls' = stopCalls + 1
    /\ beforeStop' = IF stopCalls = 0 THEN StopRegs ELSE beforeStop
    /\ afterFirst' = IF stopCalls = 0 THEN StopRegs' ELSE afterFirst

\* force_dma_stop of the UIO application.
Stop_ForceUio ==
    /\ routine = "stop_uio"
    /\ pc = "s_call"
    /\ stopCalls < MaxStopCalls
    /\ descConfig' = StoppedDesc(descConfig)
    /\ streamAddr' = StoppedStream
    /\ UNCHANGED << startReg, ctrlConfig, resetPulses >>
    /\ StopReturns
    /\ UNCHANGED stopKeep

\* dma_force_stop of the driver library.
Stop_ForceRh ==
    /\ routine = "stop_rh"
    /\ pc = "s_call"
    /\ stopCalls < MaxStopCalls
    /\ descConfig' = StoppedDesc(descConfig)
    /\ streamAddr' = StoppedStream
    /\ UNCHANGED << startReg, ctrlConfig, resetPulses >>
    /\ StopReturns
    /\ UNCHANGED stopKeep

\* force_dma_stop of the firmware: start register zeroed, then the soft-reset
\* sequence on bit 0 of the controller's CONFIG register (low, then high).
\* It writes no descriptor and no stream address register.
Stop_ForceFw ==
    /\ routine = "stop_fw"
    /\ pc = "s_call"
    /\ stopCalls < MaxStopCalls
    /\ startReg' = {}
    /\ ctrlConfig' = SetBit0(ClearBit0(ctrlConfig))
    /\ resetPulses' = resetPulses + 1
    /\ UNCHANGED << descConfig, streamAddr >>
    /\ StopReturns
    /\ UNCHANGED stopKeep

\* The stop routine is called from any register state: up to three descriptors
\* (the first, a middle one, the last) hold any of three CONFIG words, each
\* stream pointer is zero or not, a channel is started or not.
InitStop ==
    /\ routine \in {"stop_uio", "stop_rh", "stop_fw"}
    /\ pc = "s_call"
    /\ numBuffers = 1
    /\ num_transfers = 1
    /\ i = 0
    /\ j = 0
    /\ st = NoStatus
    /\ completed_desc = 0
    /\ observed = << >>
    /\ descConfig \in UNION {[S -> {{MEM_FLAG_VALID},
                                    {MEM_FLAG_SRC_RDY},
                                    UioConfigWord \cup {MEM_FLAG_DEST_RDY}}] :
                             S \in SUBSET {0, 15, NumDescriptors - 1}}
    /\ descNext = [k \in {} |-> 0]
    /\ bodyWritten = {}
    /\ streamAddr \in {[k \in StreamIdx |-> IF k \in S THEN 1 ELSE 0] :
                       S \in {{}, {0}, {NumStreamRegs - 1}, StreamIdx}}
    /\ startReg \in {{}, {0}}
    /\ ctrlConfig \in 0 .. 3
    /\ maskReg = {}
    /\ status = NoStatus
    /\ hwRunning = FALSE
    /\ hwCur = 0
    /\ uioPending = FALSE
    /\ uioEnabled = TRUE
    /\ raised = 0
    /\ streamDesc = {}
    /\ srcStarted = FALSE
    /\ outcome = "none"
    /\ runs = 0
    /\ stopCalls = 0
    /\ afterFirst = << >>
    /\ resetPulses = 0
    /\ beforeStop = << >>
    /\ lateIrq = FALSE
    /\ streamRunning = FALSE
    /\ InitMore

NextStop == Stop_ForceUio \/ Stop_ForceRh \/ Stop_ForceFw

SpecStop == InitStop /\ [][NextStop]_vars

NoValidAnywhere == \A k \in DescIdx : MEM_FLAG_VALID \notin Cfg(descConfig, k)
NoStreamPointer == \A s \in StreamIdx : streamAddr[s] = 0

\* C6 (as stated): after any of the three stop routines returns, VALID is clear
\* in all 32 descriptors, all 4 stream address registers are 0, and the routine
\* made no reset pulse.
C6_StopClearsAll ==
    (stopCalls >= 1) =>
        (NoValidAnywhere /\ NoStreamPointer /\ resetPulses = 0)

\* C6 (amended): after force_dma_stop of the UIO application or dma_force_stop
\* of the driver library returns, VALID is clear in all 32 descriptors, all 4
\* stream address registers are 0 and no reset pulse was made, whatever the
\* registers held before.
C6_DescriptorStopClearsAll ==
    (routine \in {"stop_uio", "stop_rh"} /\ stopCalls >= 1) =>
        (NoValidAnywhere /\ NoStreamPointer /\ resetPulses = 0)

C6_Witness ==
    /\ routine = "stop_rh"
    /\ stopCalls = 1
    /\ MEM_FLAG_VALID \in Cfg(beforeStop[1], NumDescriptors - 1)
    /\ beforeStop[2][NumStreamRegs - 1] # 0
    /\ NoValidAnywhere
    /\ NoStreamPointer

\* C7: the registers after the second call of a stop routine equal the
\* registers after the first call, from every starting register state.
C7_StopIdempotent ==
    (stopCalls >= 2) => (StopRegs = afterFirst)

C7_Witness ==
    /\ stopCalls = 2
    /\ routine = "stop_fw"
    /\ beforeStop # afterFirst
    /\ StopRegs = afterFirst
    /\ resetPulses = 2


\* ------------------------------------------------- waits with a deadline
\* How many times the loopback test is invoked.
MaxRuns == 2

\* for (int i = 0; i < 5; ++i) ... sleep(1)
PollLimit == 5

\* The start macros give a word with one bit set; the model keeps the number
\* of that bit. FDMA_START_STREAM(n) is (1U << (16 + n)).
\* (faulty variant: the stream start bits placed at 8 + n in this map too)
FDMA_START_STREAM_low(n) == 8 + n
FDMA_START_STREAM(n) == 16 + n
\* FDMA_START_MEM(n) is (1U << (n))
FDMA_START_MEM(n) == n
FDMA_START_STREAM_fw(id) == id + 8
FDMA_IRQ_MASK_STREAM_DONE(id) ==
    << "STREAM_DONE_0", "STREAM_DONE_1", "STREAM_DONE_2", "STREAM_DONE_3" >>[id + 1]
STREAM_FLAG_DEST_RDY == "DEST_RDY"
STREAM_FLAG_VALID == "VALID"
STREAM_FLAG_IRQ_EN == "IRQ_EN"
STREAM_OP_INCR == "INCR"
STREAM_FLAG_CHAIN == "CHAIN"

RECURSIVE Pow2(_)
Pow2(n) == IF n = 0 THEN 1 ELSE 2 * Pow2(n - 1)

RECURSIVE SetSum(_)
SetSum(S) ==
    IF S = {} THEN 0
    ELSE LET x == CHOOSE y \in S : TRUE IN x + SetSum(S \ {x})

\* Bit n of the 32-bit word w.
HasBit(w, n) == (w \div Pow2(n)) % 2 = 1

\* ------------------------------------------ stream descriptors in DRAM
\* Address words are held as offsets from dma_phys_base.
\* STREAM_DEST_OFFSET with NUM_BUFFERS 4 and BUFFER_SIZE 1 MiB.
STREAM_DEST_OFFSET == 8388608

\* (faulty variant: IRQ_EN and CHAIN exchanged)
StreamBitSwapped(f) ==
    CASE f = STREAM_OP_INCR -> 0
      [] f = STREAM_FLAG_IRQ_EN -> 1
      [] f = STREAM_FLAG_DEST_RDY -> 2
      [] f = STREAM_FLAG_VALID -> 3
      [] f = STREAM_FLAG_CHAIN -> 4
\* STREAM_OP_INCR (0b01), STREAM_FLAG_CHAIN (1U << 1),
\* STREAM_FLAG_DEST_RDY (1U << 2), STREAM_FLAG_VALID (1U << 3),
\* STREAM_FLAG_IRQ_EN (1U << 4)
StreamBit(f) ==
    CASE f = STREAM_OP_INCR -> 0
      [] f = STREAM_FLAG_CHAIN -> 1
      [] f = STREAM_FLAG_DEST_RDY -> 2
      [] f = STREAM_FLAG_VALID -> 3
      [] f = STREAM_FLAG_IRQ_EN -> 4

\* The value of a CONFIG word made by OR-ing the flags.
StreamConfigValue(flags) == SetSum({Pow2(StreamBit(f)) : f \in flags})

\* CONFIG_REG |= flags
StreamConfigOr(w, flags) ==
    w + SetSum({Pow2(StreamBit(f)) : f \in {g \in flags : ~HasBit(w, StreamBit(g))}})

\* DmaStreamDescriptor_t: CONFIG_REG, BYTE_COUNT_REG, DEST_ADDR_REG
StreamDescWords(config, byte_count, dest_addr) ==
    << config, byte_count, dest_addr >>

\* The stream test of the custom controller: STREAM_DEST_OFFSET and test_size.
FwStreamDestOffset == 4096
test_size == 4096

\* STREAM_OP_INCR (1U << 0), STREAM_FLAG_IRQ_EN (1U << 1),
\* STREAM_FLAG_DEST_RDY (1U << 2), STREAM_FLAG_VALID (1U << 3)
FwStreamBit(f) ==
    CASE f = STREAM_OP_INCR -> 0
      [] f = STREAM_FLAG_IRQ_EN -> 1
      [] f = STREAM_FLAG_DEST_RDY -> 2
      [] f = STREAM_FLAG_VALID -> 3

FwStreamConfigValue(flags) == SetSum({Pow2(FwStreamBit(f)) : f \in flags})

\* DmaStreamDescriptor_t of the custom controller: SRC_ADDR_REG,
\* DEST_ADDR_REG, BYTE_COUNT_REG, CONFIG_REG
FwStreamDescWords(src_addr, dest_addr, byte_count, config) ==
    << src_addr, dest_addr, byte_count, config >>

\* What a word of the descriptor area that the CPU never writes may hold.
LeftoverWords == {0, 1024}

\* INTR_0_STAT_REG = 0xFFFFFFFF: every flag bit of the status register.
AllStatusFlags == FDMA_IRQ_CLEAR_ALL \cup {FDMA_IRQ_MASK_STREAM_DONE(0)}

\* A software start of a stream channel that no stream feeds: the controller
\* either ignores it or reports invalid_desc after fetching the descriptor.
HwStreamInvalid ==
    /\ streamRunning
    /\ ~srcStarted
    /\ streamAddr[0] # 0
    /\ status' = [status EXCEPT !.flags = @ \cup {FDMA_IRQ_STAT_INVALID_DESC}]
    /\ streamRunning' = FALSE
    /\ lateIrq' = (lateIrq \/ outcome = "timeout")
    /\ UNCHANGED << routine, pc, numBuffers, num_transfers, i, j, descConfig,
                    descNext, bodyWritten, streamAddr, startReg, maskReg,
                    ctrlConfig, hwRunning, hwCur, uioPending, uioEnabled, st,
                    completed_desc, observed, raised, streamDesc, srcStarted,
                    outcome, runs, stopCalls, afterFirst, resetPulses,
                    beforeStop, moreVars >>

\* The stream arrives: the controller fills the buffer of the stream
\* descriptor, takes DEST_RDY back and reports the stream channel done.
HwStreamDone ==
    /\ streamRunning
    /\ srcStarted
    /\ streamAddr[0] # 0
    /\ {STREAM_FLAG_VALID, STREAM_FLAG_DEST_RDY} \subseteq streamDesc
    /\ status' = [status EXCEPT !.flags = @ \cup {FDMA_IRQ_MASK_STREAM_DONE(0)}]
    /\ streamDesc' = streamDesc \ {STREAM_FLAG_DEST_RDY}
    /\ streamRunning' = FALSE
    /\ raised' = raised + 1
    /\ lateIrq' = (lateIrq \/ outcome = "timeout")
    /\ UNCHANGED << routine, pc, numBuffers, num_transfers, i, j, descConfig,
                    descNext, bodyWritten, streamAddr, startReg, maskReg,
                    ctrlConfig, hwRunning, hwCur, uioPending, uioEnabled, st,
                    completed_desc, observed, srcStarted, outcome, runs,
                    stopCalls, afterFirst, resetPulses, beforeStop, moreVars >>

\* ---- run_control_path_validation_test
Ctrl_Reset ==
    /\ routine = "ctrl"
    /\ pc = "c_reset"
    /\ descConfig' = StoppedDesc(descConfig)
    /\ streamAddr' = StoppedStream
    /\ maskReg' = {}
    /\ uioPending' = FALSE
    /\ status' = ClearedStatus(status, FDMA_IRQ_CLEAR_ALL)
    /\ uioEnabled' = TRUE
    /\ pc' = "c_desc"
    /\ UNCHANGED << routine, numBuffers, num_transfers, i, j, descNext,
                    bodyWritten, startReg, ctrlConfig, hwRunning, hwCur, st,
                    completed_desc, observed, raised, streamDesc, srcStarted,
                    outcome, runs, stopCalls, afterFirst, resetPulses,
                    beforeStop, lateIrq, streamRunning, moreVars >>

\* desc->CONFIG_REG = (STREAM_OP_INCR | STREAM_FLAG_IRQ_EN) | VALID | DEST_RDY
Ctrl_Desc ==
    /\ routine = "ctrl"
    /\ pc = "c_desc"
    /\ streamDesc' = {STREAM_OP_INCR, STREAM_FLAG_IRQ_EN, STREAM_FLAG_VALID,
                      STREAM_FLAG_DEST_RDY}
    /\ streamWords' = Put(streamWords, 0,
                          StreamDescWords(StreamConfigValue(streamDesc'), 1024,
                                          STREAM_DEST_OFFSET), << >>)
    /\ pc' = "c_ptr"
    /\ UNCHANGED << routine, numBuffers, num_transfers, i, j, descConfig,
                    descNext, bodyWritten, streamAddr, startReg, maskReg,
                    status, ctrlConfig, hwRunning, hwCur, uioPending,
                    uioEnabled, st, completed_desc, observed, raised,
                    srcStarted, outcome, runs, stopCalls, afterFirst,
                    resetPulses, beforeStop, lateIrq, streamRunning, inflight,
                    st1, streamChain, irqsRead, dma_id, descriptor_id,
                    g_dma_completed_buffer_flag, irqLine, lastFilled,
                    buffer_size, descCount, channel_num, unfenced, destFilled,
                    beforeReset, access, handlerCalls, passes, testedAt,
                    mem_fd, dma_regs, lastCall, apiCalls >>

\* STREAM_ADDR_REG[0] = phys_desc_addr
Ctrl_Ptr ==
    /\ routine = "ctrl"
    /\ pc = "c_ptr"
    /\ streamAddr' = [streamAddr EXCEPT ![0] = 1]
    /\ pc' = "c_mask"
    /\ UNCHANGED << routine, numBuffers, num_transfers, i, j, descConfig,
                    descNext, bodyWritten, startReg, maskReg, status,
                    ctrlConfig, hwRunning, hwCur, uioPending, uioEnabled, st,
                    completed_desc, observed, raised, streamDesc, srcStarted,
                    outcome, runs, stopCalls, afterFirst, resetPulses,
                    beforeStop, lateIrq, streamRunning, moreVars >>

Ctrl_Mask ==
    /\ routine = "ctrl"
    /\ pc = "c_mask"
    /\ maskReg' = FDMA_IRQ_MASK_ALL
    /\ pc' = "c_start"
    /\ UNCHANGED << routine, numBuffers, num_transfers, i, j, descConfig,
                    descNext, bodyWritten, streamAddr, startReg, status,
                    ctrlConfig, hwRunning, hwCur, uioPending, uioEnabled, st,
                    completed_desc, observed, raised, streamDesc, srcStarted,
                    outcome, runs, stopCalls, afterFirst, resetPulses,
                    beforeStop, lateIrq, streamRunning, moreVars >>

\* START_OPERATION_REG = FDMA_START_STREAM(0)
Ctrl_Start ==
    /\ routine = "ctrl"
    /\ pc = "c_start"
    /\ startReg' = {FDMA_START_STREAM(0)}
    /\ streamRunning' = TRUE
    /\ pc' = "c_select"
    /\ UNCHANGED << routine, numBuffers, num_transfers, i, j, descConfig,
                    descNext, bodyWritten, streamAddr, maskReg, status,
                    ctrlConfig, hwRunning, hwCur, uioPending, uioEnabled, st,
                    completed_desc, observed, raised, streamDesc, srcStarted,
                    outcome, runs, stopCalls, afterFirst, resetPulses,
                    beforeStop, lateIrq, moreVars >>

\* select() with tv = 5 s: returns ready when a UIO event is pending, and 0
\* when the five seconds pass without one.
\* (faulty variant: select() called with a NULL timeout)
SelectBlocks(pending) == FALSE
SelectTimesOut(pending) == ~pending

Ctrl_Select ==
    /\ routine = "ctrl"
    /\ pc = "c_select"
    /\ \/ /\ uioPending
          /\ pc' = "c_read"
          /\ UNCHANGED outcome
       \/ /\ SelectTimesOut(uioPending)
          /\ outcome' = "timeout"
          /\ pc' = "c_stop"
    /\ UNCHANGED << routine, numBuffers, num_transfers, i, j, descConfig,
                    descNext, bodyWritten, streamAddr, startReg, maskReg,
                    status, ctrlConfig, hwRunning, hwCur, uioPending,
                    uioEnabled, st, completed_desc, observed, raised,
                    streamDesc, srcStarted, runs, stopCalls, afterFirst,
                    resetPulses, beforeStop, lateIrq, streamRunning, moreVars >>

\* select() returns -1: perror and return, with no cleanup. Nothing obliges
\* select() to fail, so this step is not among those the CPU is bound to take.
Ctrl_SelectError ==
    /\ routine = "ctrl"
    /\ pc = "c_select"
    /\ outcome' = "error"
    /\ pc' = "done"
    /\ UNCHANGED << routine, numBuffers, num_transfers, i, j, descConfig,
                    descNext, bodyWritten, streamAddr, startReg, maskReg,
                    status, ctrlConfig, hwRunning, hwCur, uioPending,
                    uioEnabled, st, completed_desc, observed, raised,
                    streamDesc, srcStarted, runs, stopCalls, afterFirst,
                    resetPulses, beforeStop, lateIrq, streamRunning, moreVars >>

\* read(dma_uio_fd); status = INTR_0_STAT_REG; PASSED on invalid_desc.
Ctrl_Read ==
    /\ routine = "ctrl"
    /\ pc = "c_read"
    /\ uioPending' = FALSE
    /\ st' = status
    /\ outcome' = IF FDMA_IRQ_STAT_INVALID_DESC \in status.flags
                  THEN "ok" ELSE "fail"
    /\ pc' = "c_stop"
    /\ UNCHANGED << routine, numBuffers, num_transfers, i, j, descConfig,
                    descNext, bodyWritten, streamAddr, startReg, maskReg,
                    status, ctrlConfig, hwRunning, hwCur, uioEnabled,
                    completed_desc, observed, raised, streamDesc, srcStarted,
                    runs, stopCalls, afterFirst, resetPulses, beforeStop,
                    lateIrq, streamRunning, moreVars >>

\* force_dma_stop after either branch.
Ctrl_Stop ==
    /\ routine = "ctrl"
    /\ pc = "c_stop"
    /\ descConfig' = StoppedDesc(descConfig)
    /\ streamAddr' = StoppedStream
    /\ pc' = "c_clear"
    /\ UNCHANGED << routine, numBuffers, num_transfers, i, j, descNext,
                    bodyWritten, startReg, maskReg, status, ctrlConfig,
                    hwRunning, hwCur, uioPending, uioEnabled, st,
                    completed_desc, observed, raised, streamDesc, srcStarted,
                    outcome, runs, stopCalls, afterFirst, resetPulses,
                    beforeStop, lateIrq, streamRunning, moreVars >>

\* INTR_0_CLEAR_REG = FDMA_IRQ_CLEAR_ALL
Ctrl_Clear ==
    /\ routine = "ctrl"
    /\ pc = "c_clear"
    /\ status' = ClearedStatus(status, FDMA_IRQ_CLEAR_ALL)
    /\ pc' = "c_enable"
    /\ UNCHANGED << routine, numBuffers, num_transfers, i, j, descConfig,
                    descNext, bodyWritten, streamAddr, startReg, maskReg,
                    ctrlConfig, hwRunning, hwCur, uioPending, uioEnabled, st,
                    completed_desc, observed, raised, streamDesc, srcStarted,
                    outcome, runs, stopCalls, afterFirst, resetPulses,
                    beforeStop, lateIrq, streamRunning, moreVars >>

\* write(dma_uio_fd, &irq_enable)
Ctrl_Enable ==
    /\ routine = "ctrl"
    /\ pc = "c_enable"
    /\ uioEnabled' = TRUE
    /\ pc' = "done"
    /\ UNCHANGED << routine, numBuffers, num_transfers, i, j, descConfig,
                    descNext, bodyWritten, streamAddr, startReg, maskReg,
                    status, ctrlConfig, hwRunning, hwCur, uioPending, st,
                    completed_desc, observed, raised, streamDesc, srcStarted,
                    outcome, runs, stopCalls, afterFirst, resetPulses,
                    beforeStop, lateIrq, streamRunning, moreVars >>

Ctrl_Cpu ==
    \/ Ctrl_Reset \/ Ctrl_Desc \/ Ctrl_Ptr \/ Ctrl_Mask \/ Ctrl_Start
    \/ Ctrl_Select \/ Ctrl_Read \/ Ctrl_Stop \/ Ctrl_Clear \/ Ctrl_Enable

\* ---- DMA_RunMemoryLoopbackTest
\* SOURCE_ADDR, DEST_ADDR, BYTE_COUNT, NEXT_DESC_ADDR = 0 of descriptor 0.
Loop_Body ==
    /\ routine = "loopback"
    /\ pc = "l_body"
    /\ bodyWritten' = bodyWritten \cup {0}
    /\ descNext' = Put(descNext, 0, 0, 0)
    /\ outcome' = "none"
    /\ pc' = "l_conf"
    /\ unfenced' = unfenced \cup {"body"}
    /\ UNCHANGED << routine, numBuffers, num_transfers, i, j, descConfig,
                    streamAddr, startReg, maskReg, status, ctrlConfig,
                    hwRunning, hwCur, uioPending, uioEnabled, st,
                    completed_desc, observed, raised, streamDesc, srcStarted,
                    runs, stopCalls, afterFirst, resetPulses, beforeStop,
                    lateIrq, streamRunning, streamVars, destFilled,
                    beforeReset, access, handlerCalls, passes, testedAt,
                    mem_fd, dma_regs, lastCall, apiCalls >>

\* desc->CONFIG_REG = config, without VALID.
LoopConfigWord ==
    {"SRC_INCR", "DEST_INCR", MEM_FLAG_IRQ_ON_PROCESS, MEM_FLAG_SRC_RDY,
     MEM_FLAG_DEST_RDY}

Loop_Conf ==
    /\ routine = "loopback"
    /\ pc = "l_conf"
    /\ descConfig' = SetConfig(descConfig, 0, LoopConfigWord)
    /\ pc' = "l_valid"
    /\ unfenced' = unfenced \cup {"config"}
    /\ UNCHANGED << routine, numBuffers, num_transfers, i, j, descNext,
                    bodyWritten, streamAddr, startReg, maskReg, status,
                    ctrlConfig, hwRunning, hwCur, uioPending, uioEnabled, st,
                    completed_desc, observed, raised, streamDesc, srcStarted,
                    outcome, runs, stopCalls, afterFirst, resetPulses,
                    beforeStop, lateIrq, streamRunning, streamVars,
                    destFilled, beforeReset, access, handlerCalls, passes,
                    testedAt, mem_fd, dma_regs, lastCall, apiCalls >>

\* desc->CONFIG_REG |= DESC_CONFIG_DESCRIPTOR_VALID
Loop_Valid ==
    /\ routine = "loopback"
    /\ pc = "l_valid"
    /\ descConfig' = OrConfig(descConfig, 0, {MEM_FLAG_VALID})
    /\ pc' = "l_mask"
    /\ unfenced' = unfenced \cup {"config"}
    /\ UNCHANGED << routine, numBuffers, num_transfers, i, j, descNext,
                    bodyWritten, streamAddr, startReg, maskReg, status,
                    ctrlConfig, hwRunning, hwCur, uioPending, uioEnabled, st,
                    completed_desc, observed, raised, streamDesc, srcStarted,
                    outcome, runs, stopCalls, afterFirst, resetPulses,
                    beforeStop, lateIrq, streamRunning, streamVars,
                    destFilled, beforeReset, access, handlerCalls, passes,
                    testedAt, mem_fd, dma_regs, lastCall, apiCalls >>

\* INTR_0_MASK_REG = 0x1
Loop_Mask ==
    /\ routine = "loopback"
    /\ pc = "l_mask"
    /\ maskReg' = {"OPS_COMPLETE"}
    /\ pc' = "l_start"
    /\ UNCHANGED << routine, numBuffers, num_transfers, i, j, descConfig,
                    descNext, bodyWritten, streamAddr, startReg, status,
                    ctrlConfig, hwRunning, hwCur, uioPending, uioEnabled, st,
                    completed_desc, observed, raised, streamDesc, srcStarted,
                    outcome, runs, stopCalls, afterFirst, resetPulses,
                    beforeStop, lateIrq, streamRunning, moreVars >>

\* START_OPERATION_REG = (1U << 0)
Loop_Start ==
    /\ routine = "loopback"
    /\ pc = "l_start"
    /\ startReg' = {0}
    /\ hwRunning' = TRUE
    /\ hwCur' = 0
    /\ i' = 0
    /\ pc' = "l_poll"
    /\ UNCHANGED << routine, numBuffers, num_transfers, j, descConfig,
                    descNext, bodyWritten, streamAddr, maskReg, status,
                    ctrlConfig, uioPending, uioEnabled, st, completed_desc,
                    observed, raised, streamDesc, srcStarted, outcome, runs,
                    stopCalls, afterFirst, resetPulses, beforeStop, lateIrq,
                    streamRunning, moreVars >>

\* if (!success) printf(" TIMEOUT!"): nothing else is done before the return.
\* (faulty variant: DMA_ClearInterrupt called on the timeout path as well)
LoopTimeoutClears == "l_clear"
LoopTimeoutReturns == "l_ret"

\* Loop head and the first read of DMA_GetInterruptStatus: bit 0 of the status
\* register. After five polls without a completion the test prints TIMEOUT.
Loop_Poll ==
    /\ routine = "loopback"
    /\ pc = "l_poll"
    /\ IF i < PollLimit
       THEN /\ st1' = status
            /\ IF "OPS_COMPLETE" \in status.flags
               THEN pc' = "l_poll2" /\ UNCHANGED << i, outcome, completed_desc >>
               ELSE /\ pc' = "l_poll"
                    /\ i' = i + 1
                    /\ completed_desc' = -1
                    /\ UNCHANGED outcome
       ELSE /\ pc' = LoopTimeoutReturns
            /\ outcome' = "timeout"
            /\ UNCHANGED << i, st1, completed_desc >>
    /\ UNCHANGED << routine, numBuffers, num_transfers, j, descConfig,
                    descNext, bodyWritten, streamAddr, startReg, maskReg,
                    status, ctrlConfig, hwRunning, hwCur, uioPending,
                    uioEnabled, st, observed, raised, streamDesc, srcStarted,
                    runs, stopCalls, afterFirst, resetPulses, beforeStop,
                    lateIrq, streamRunning, inflight, streamChain, irqsRead,
                    dma_id, descriptor_id, g_dma_completed_buffer_flag,
                    irqLine, lastFilled, buffer_size, descCount, channel_num,
                    streamWords, unfenced, destFilled, beforeReset, access,
                    handlerCalls, passes, testedAt, mem_fd, dma_regs,
                    lastCall, apiCalls >>

\* The second read of DMA_GetInterruptStatus: the descriptor number field,
\* compared with 0.
Loop_Poll2 ==
    /\ routine = "loopback"
    /\ pc = "l_poll2"
    /\ st' = status
    /\ completed_desc' = CompletedDesc(status)
    /\ IF CompletedDesc(status) = 0
       THEN pc' = "l_clear" /\ UNCHANGED i
       ELSE pc' = "l_poll" /\ i' = i + 1
    /\ UNCHANGED << routine, numBuffers, num_transfers, j, descConfig,
                    descNext, bodyWritten, streamAddr, startReg, maskReg,
                    status, ctrlConfig, hwRunning, hwCur, uioPending,
                    uioEnabled, observed, raised, streamDesc, srcStarted,
                    outcome, runs, stopCalls, afterFirst, resetPulses,
                    beforeStop, lateIrq, streamRunning, moreVars >>

\* DMA_ClearInterrupt: INTR_0_CLEAR_REG = 0x1; success = 1.
Loop_Clear ==
    /\ routine = "loopback"
    /\ pc = "l_clear"
    /\ status' = ClearedStatus(status, {"OPS_COMPLETE"})
    /\ outcome' = "ok"
    /\ pc' = "l_verify"
    /\ UNCHANGED << routine, numBuffers, num_transfers, i, j, descConfig,
                    descNext, bodyWritten, streamAddr, startReg, maskReg,
                    ctrlConfig, hwRunning, hwCur, uioPending, uioEnabled, st,
                    completed_desc, observed, raised, streamDesc, srcStarted,
                    runs, stopCalls, afterFirst, resetPulses, beforeStop,
                    lateIrq, streamRunning, moreVars >>

\* memcmp of the two buffers; the buffer contents are outside this model.
Loop_Verify ==
    /\ routine = "loopback"
    /\ pc = "l_verify"
    /\ outcome' \in {"ok", "fail"}
    /\ pc' = "l_ret"
    /\ UNCHANGED << routine, numBuffers, num_transfers, i, j, descConfig,
                    descNext, bodyWritten, streamAddr, startReg, maskReg,
                    status, ctrlConfig, hwRunning, hwCur, uioPending,
                    uioEnabled, st, completed_desc, observed, raised,
                    streamDesc, srcStarted, runs, stopCalls, afterFirst,
                    resetPulses, beforeStop, lateIrq, streamRunning, moreVars >>

\* return success: to the caller that entered the test through its check of
\* dma_regs, or else to a caller that may run the test again.
Loop_Return ==
    /\ routine = "loopback"
    /\ pc = "l_ret"
    /\ runs' = runs + 1
    /\ IF lastCall.fn = "DMA_RunMemoryLoopbackTest"
       THEN /\ routine' = "map_api"
            /\ pc' = "m_idle"
            /\ lastCall' = [lastCall EXCEPT
                               !.ret = IF outcome = "ok" THEN 1 ELSE 0]
       ELSE /\ pc' = IF runs + 1 < MaxRuns THEN "l_body" ELSE "done"
            /\ UNCHANGED << routine, lastCall >>
    /\ UNCHANGED << numBuffers, num_transfers, i, j, descConfig, descNext,
                    bodyWritten, streamAddr, startReg, maskReg, status,
                    ctrlConfig, hwRunning, hwCur, uioPending, uioEnabled, st,
                    completed_desc, observed, raised, streamDesc, srcStarted,
                    outcome, stopCalls, afterFirst, resetPulses, beforeStop,
                    lateIrq, streamRunning, streamVars, unfenced, destFilled,
                    beforeReset, access, handlerCalls, passes, testedAt,
                    mem_fd, dma_regs, apiCalls >>

Loop_Cpu ==
    \/ Loop_Body \/ Loop_Conf \/ Loop_Valid \/ Loop_Mask \/ Loop_Start
    \/ Loop_Poll \/ Loop_Poll2 \/ Loop_Clear \/ Loop_Verify \/ Loop_Return

\* ---- run_axi_stream_source_test (firmware)
\* dma_reset_interrupts: mask off, every status flag written to 1.
Src_Reset ==
    /\ routine = "stream_src"
    /\ pc \in {"f_reset", "f_reset2"}
    /\ maskReg' = {}
    /\ status' = ClearedStatus(status, AllStatusFlags)
    /\ pc' = IF pc = "f_reset" THEN "f_reset_read" ELSE "f_reset2_read"
    /\ UNCHANGED << routine, numBuffers, num_transfers, i, j, descConfig,
                    descNext, bodyWritten, streamAddr, startReg, ctrlConfig,
                    hwRunning, hwCur, uioPending, uioEnabled, st,
                    completed_desc, observed, raised, streamDesc, srcStarted,
                    outcome, runs, stopCalls, afterFirst, resetPulses,
                    beforeStop, lateIrq, streamRunning, moreVars >>

\* dma_reset_interrupts: lseek and read(uio_fd), a blocking read. The firmware
\* never writes to the UIO handle: by its comment the read is what re-enables
\* the interrupt.
Src_ResetRead ==
    /\ routine = "stream_src"
    /\ pc \in {"f_reset_read", "f_reset2_read"}
    /\ uioPending
    /\ uioPending' = FALSE
    /\ uioEnabled' = TRUE
    /\ pc' = IF pc = "f_reset_read" THEN "f_desc" ELSE "done"
    /\ UNCHANGED << routine, numBuffers, num_transfers, i, j, descConfig,
                    descNext, bodyWritten, streamAddr, startReg, maskReg,
                    status, ctrlConfig, hwRunning, hwCur, st, completed_desc,
                    observed, raised, streamDesc, srcStarted, outcome, runs,
                    stopCalls, afterFirst, resetPulses, beforeStop, lateIrq,
                    streamRunning, moreVars >>

\* stream_descriptor->CONFIG_REG = INCR | IRQ_EN | DEST_RDY | VALID
Src_Desc ==
    /\ routine = "stream_src"
    /\ pc = "f_desc"
    /\ streamDesc' = {STREAM_OP_INCR, STREAM_FLAG_IRQ_EN, STREAM_FLAG_DEST_RDY,
                      STREAM_FLAG_VALID}
    /\ \E src_addr \in LeftoverWords :
          streamWords' = Put(streamWords, 0,
                             FwStreamDescWords(src_addr, FwStreamDestOffset,
                                               test_size,
                                               FwStreamConfigValue(streamDesc')),
                             << >>)
    /\ pc' = "f_ptr"
    /\ UNCHANGED << routine, numBuffers, num_transfers, i, j, descConfig,
                    descNext, bodyWritten, streamAddr, startReg, maskReg,
                    status, ctrlConfig, hwRunning, hwCur, uioPending,
                    uioEnabled, st, completed_desc, observed, raised,
                    srcStarted, outcome, runs, stopCalls, afterFirst,
                    resetPulses, beforeStop, lateIrq, streamRunning, inflight,
                    st1, streamChain, irqsRead, dma_id, descriptor_id,
                    g_dma_completed_buffer_flag, irqLine, lastFilled,
                    buffer_size, descCount, channel_num, unfenced, destFilled,
                    beforeReset, access, handlerCalls, passes, testedAt,
                    mem_fd, dma_regs, lastCall, apiCalls >>

\* STREAM_ADDR_REG[0] = phys_desc_addr; INTR_0_MASK_REG = STREAM_DONE(0)
Src_Ptr ==
    /\ routine = "stream_src"
    /\ pc = "f_ptr"
    /\ streamAddr' = [streamAddr EXCEPT ![0] = 1]
    /\ maskReg' = {FDMA_IRQ_MASK_STREAM_DONE(0)}
    /\ pc' = "f_start"
    /\ UNCHANGED << routine, numBuffers, num_transfers, i, j, descConfig,
                    descNext, bodyWritten, startReg, status, ctrlConfig,
                    hwRunning, hwCur, uioPending, uioEnabled, st,
                    completed_desc, observed, raised, streamDesc, srcStarted,
                    outcome, runs, stopCalls, afterFirst, resetPulses,
                    beforeStop, lateIrq, streamRunning, moreVars >>

\* START_OPERATION_REG = FDMA_START_STREAM(0)
Src_Start ==
    /\ routine = "stream_src"
    /\ pc = "f_start"
    /\ startReg' = {FDMA_START_STREAM_fw(0)}
    /\ streamRunning' = TRUE
    /\ pc' = "f_src"
    /\ UNCHANGED << routine, numBuffers, num_transfers, i, j, descConfig,
                    descNext, bodyWritten, streamAddr, maskReg, status,
                    ctrlConfig, hwRunning, hwCur, uioPending, uioEnabled, st,
                    completed_desc, observed, raised, streamDesc, srcStarted,
                    outcome, runs, stopCalls, afterFirst, resetPulses,
                    beforeStop, lateIrq, moreVars >>

\* NUM_BYTES, DEST, and the start pulse of the AXI stream source.
Src_StartSource ==
    /\ routine = "stream_src"
    /\ pc = "f_src"
    /\ srcStarted' = TRUE
    /\ pc' = "f_wait"
    /\ UNCHANGED << routine, numBuffers, num_transfers, i, j, descConfig,
                    descNext, bodyWritten, streamAddr, startReg, maskReg,
                    status, ctrlConfig, hwRunning, hwCur, uioPending,
                    uioEnabled, st, completed_desc, observed, raised,
                    streamDesc, outcome, runs, stopCalls, afterFirst,
                    resetPulses, beforeStop, lateIrq, streamRunning, moreVars >>

\* read(dma_uio_fd): blocks until an event is pending, with no deadline; then
\* the status register is read and the data compared (contents outside this
\* model).
\* StreamDone(n): after its n-th read the routine takes the transfer as
\* complete. The code calls read() once and goes on to compare the buffer.
\* (faulty variant: a second read() before the comparison)
StreamDoneTwo(n) == n >= 2
StreamDone(n) == n >= 1
Src_Wait ==
    /\ routine = "stream_src"
    /\ pc = "f_wait"
    /\ uioPending
    /\ uioPending' = FALSE
    /\ uioEnabled' = TRUE
    /\ st' = status
    /\ irqsRead' = irqsRead + 1
    /\ IF StreamDone(irqsRead')
       THEN /\ outcome' \in {"ok", "fail"}
            /\ pc' = "f_stop"
       ELSE UNCHANGED << outcome, pc >>
    /\ UNCHANGED << routine, numBuffers, num_transfers, i, j, descConfig,
                    descNext, bodyWritten, streamAddr, startReg, maskReg,
                    status, ctrlConfig, hwRunning, hwCur, completed_desc,
                    observed, raised, streamDesc, srcStarted, runs, stopCalls,
                    afterFirst, resetPulses, beforeStop, lateIrq,
                    streamRunning, inflight, st1, streamChain, dma_id,
                    descriptor_id, g_dma_completed_buffer_flag, irqLine,
                    lastFilled, buffer_size, descCount, channel_num,
                    streamWords, unfenced, destFilled, beforeReset, access,
                    handlerCalls, passes, testedAt, mem_fd, dma_regs,
                    lastCall, apiCalls >>

\* force_dma_stop (firmware) in the cleanup.
Src_Stop ==
    /\ routine = "stream_src"
    /\ pc = "f_stop"
    /\ startReg' = {}
    /\ ctrlConfig' = SetBit0(ClearBit0(ctrlConfig))
    /\ resetPulses' = resetPulses + 1
    /\ pc' = "f_reset2"
    /\ UNCHANGED << routine, numBuffers, num_transfers, i, j, descConfig,
                    descNext, bodyWritten, streamAddr, maskReg, status,
                    hwRunning, hwCur, uioPending, uioEnabled, st,
                    completed_desc, observed, raised, streamDesc, srcStarted,
                    outcome, runs, stopCalls, afterFirst, beforeStop,
                    lateIrq, streamRunning, moreVars >>

Src_Cpu ==
    \/ Src_Reset \/ Src_ResetRead \/ Src_Desc \/ Src_Ptr \/ Src_Start
    \/ Src_StartSource \/ Src_Wait \/ Src_Stop

\* ---- the routines that wait, against a controller that may stay silent
InitWait ==
    /\ routine \in {"ctrl", "loopback", "stream_src", "pp_uio", "pp_rh"}
    /\ pc = CASE routine = "ctrl" -> "c_reset"
              [] routine = "loopback" -> "l_body"
              [] routine = "stream_src" -> "f_reset"
              [] OTHER -> "reset"
    /\ numBuffers \in IF routine \in {"pp_uio", "pp_rh"} THEN 1 .. MaxRing ELSE {1}
    /\ num_transfers \in IF routine \in {"pp_uio", "pp_rh"} THEN 1 .. MaxTransfers ELSE {1}
    /\ i = 0
    /\ j = 0
    /\ st = NoStatus
    /\ completed_desc = 0
    /\ observed = << >>
    /\ descConfig = [k \in {} |-> {}]
    /\ descNext = [k \in {} |-> 0]
    /\ bodyWritten = {}
    /\ streamAddr = [k \in StreamIdx |-> 0]
    /\ startReg = {}
    /\ maskReg = {}
    /\ status = NoStatus
    /\ ctrlConfig = 0
    /\ hwRunning = FALSE
    /\ hwCur = 0
    /\ uioPending \in IF routine = "stream_src" THEN BOOLEAN ELSE {FALSE}
    /\ uioEnabled = TRUE
    /\ raised = 0
    /\ streamDesc = {}
    /\ srcStarted = FALSE
    /\ outcome = "none"
    /\ runs = 0
    /\ stopCalls = 0
    /\ afterFirst = << >>
    /\ resetPulses = 0
    /\ beforeStop = << >>
    /\ lateIrq = FALSE
    /\ streamRunning = FALSE
    /\ InitMore

Wait_Cpu == PP_Cpu \/ Ctrl_Cpu \/ Loop_Cpu \/ Src_Cpu

NextWait ==
    \/ Wait_Cpu \/ Ctrl_SelectError
    \/ HwProcess \/ HwStreamInvalid \/ HwStreamDone \/ KernelIrq

SpecWait == InitWait /\ [][NextWait]_vars

\* The CPU runs whenever it can and the kernel delivers an enabled, pending
\* interrupt; nothing obliges the controller to raise one.
FairSpecWait == SpecWait /\ WF_vars(Wait_Cpu) /\ WF_vars(KernelIrq)


\* Where a routine waits for the completion interrupt, and where it is once
\* the wait has returned.
WaitPcs == {"wait", "c_select", "l_poll", "l_poll2", "f_wait"}
TimedWaitPcs == {"c_select", "l_poll", "l_poll2"}

ArmedKept ==
    /\ descConfig' = descConfig
    /\ streamDesc' = streamDesc
    /\ streamAddr' = streamAddr

\* A late completion leaves the status register only through the clear that
\* follows a wait having seen it.
LateKept ==
    (lateIrq /\ status'.flags # status.flags) =>
        (pc = "l_clear" /\ "OPS_COMPLETE" \in st.flags)

\* C9 (as stated): once a wait has timed out the CPU clears neither VALID nor
\* the ready bits nor the stream pointer, and a completion raised after the
\* timeout stays in the status register until a later wait has consumed it.
C9_TimeoutKeepsArmed ==
    [][(CpuStep /\ routine \in {"ctrl", "loopback"}) =>
         /\ (outcome' = "timeout") => ArmedKept
         /\ LateKept]_vars

\* C9 (amended): in DMA_RunMemoryLoopbackTest, once the five polls have passed
\* without a completion the test reports TIMEOUT and returns without writing
\* descriptor 0, the stream pointers or the status register, and a completion
\* raised after that stays in the status register until the poll of a later
\* run has seen it and DMA_ClearInterrupt clears it.
C9_LoopbackTimeoutKeepsArmed ==
    [][(CpuStep /\ routine = "loopback") =>
         /\ (outcome' = "timeout") => (ArmedKept /\ status' = status)
         /\ LateKept]_vars

C9_Witness ==
    /\ routine = "loopback"
    /\ runs = 1
    /\ lateIrq
    /\ raised = 1
    /\ pc = "l_verify"
    /\ outcome = "ok"


\* ------------------------------------------------ faults during the waits
NextWaitErr == NextWait \/ HwFault

SpecWaitErr == InitWait /\ [][NextWaitErr]_vars

\* C11: once the CPU has read a status with invalid_desc set, it writes no
\* descriptor CONFIG word and no stream pointer register until it calls the
\* stop routine: what was armed stays armed until stop.
C11_InvalidDescKeepsArmed ==
    [][ (/\ CpuStep
         /\ routine \in {"ctrl", "pp_uio", "pp_rh"}
         /\ FDMA_IRQ_STAT_INVALID_DESC \in st.flags
         /\ pc \notin {"stop", "c_stop"}) =>
            (/\ descConfig' = descConfig
             /\ streamDesc' = streamDesc
             /\ streamAddr' = streamAddr) ]_vars


\* ------------------------------------------ a transfer left in flight
\* A transfer of descriptor `inflight` that was under way when the routine
\* began completes: the controller reports it like any other completion.
HwStaleComplete ==
    /\ inflight >= 0
    /\ status' = [flags |-> status.flags \cup {"OPS_COMPLETE"}, idx |-> inflight]
    /\ inflight' = -1
    /\ UNCHANGED << routine, pc, numBuffers, num_transfers, i, j, descConfig,
                    descNext, bodyWritten, streamAddr, startReg, maskReg,
                    ctrlConfig, hwRunning, hwCur, uioPending, uioEnabled, st,
                    completed_desc, observed, raised, streamDesc, srcStarted,
                    outcome, runs, stopCalls, afterFirst, resetPulses,
                    beforeStop, lateIrq, streamRunning, st1, streamChain,
                    irqsRead, dma_id, descriptor_id,
                    g_dma_completed_buffer_flag, irqLine, lastFilled,
                    buffer_size, descCount, channel_num, streamWords,
                    unfenced, destFilled, beforeReset, access, handlerCalls,
                    passes, testedAt, mem_fd, dma_regs, lastCall, apiCalls >>

\* The ping-pong run, begun while the controller may still be finishing a
\* transfer of an earlier run.
InitStale ==
    /\ routine \in {"pp_uio", "pp_rh"}
    /\ numBuffers \in 1 .. MaxRing
    /\ num_transfers \in 1 .. MaxTransfers
    /\ pc = "reset"
    /\ i = 0
    /\ j = 0
    /\ st = NoStatus
    /\ completed_desc = 0
    /\ observed = << >>
    /\ descConfig = [k \in {} |-> {}]
    /\ descNext = [k \in {} |-> 0]
    /\ bodyWritten = {}
    /\ streamAddr = [k \in StreamIdx |-> 0]
    /\ startReg = {}
    /\ maskReg = {}
    /\ status = NoStatus
    /\ ctrlConfig = 0
    /\ hwRunning = FALSE
    /\ hwCur = 0
    /\ uioPending = FALSE
    /\ uioEnabled = TRUE
    /\ raised = 0
    /\ streamDesc = {}
    /\ srcStarted = FALSE
    /\ outcome = "none"
    /\ runs = 0
    /\ stopCalls = 0
    /\ afterFirst = << >>
    /\ resetPulses = 0
    /\ beforeStop = << >>
    /\ lateIrq = FALSE
    /\ streamRunning = FALSE
    /\ inflight \in -1 .. MaxRing
    /\ st1 = NoStatus
    /\ streamChain = [k \in {} |-> {}]
    /\ irqsRead = 0
    /\ dma_id = 0
    /\ descriptor_id = 0
    /\ g_dma_completed_buffer_flag = 0
    /\ irqLine = FALSE
    /\ lastFilled = -1
    /\ buffer_size = 4096
    /\ descCount = [k \in {} |-> 0]
    /\ channel_num = 0
    /\ streamWords = [k \in {} |-> << >>]
    /\ unfenced = {}
    /\ destFilled = {}
    /\ beforeReset = {}
    /\ access = {}
    /\ handlerCalls = 0
    /\ passes = 0
    /\ testedAt = 0
    /\ mem_fd = -1
    /\ dma_regs = 0
    /\ lastCall = [fn |-> "none", sys |-> << >>, ret |-> 0]
    /\ apiCalls = 0

NextStale == NextPP \/ HwStaleComplete

SpecStale == InitStale /\ [][NextStale]_vars

\* The slot the loop should see complete next: slot 0 at the start, then the
\* slot after the one seen before. The last entry of `observed` is the index
\* just decoded.
ExpectedSlot ==
    IF Len(observed) <= 1 THEN 0
    ELSE (observed[Len(observed) - 1] + 1) % numBuffers

\* C12: when the index decoded from the status register is not the expected
\* ring slot, the loop does not go on re-arming relative to the reported
\* index: it writes no descriptor CONFIG word.
C12_UnexpectedIndexStops ==
    [][ (/\ CpuStep
         /\ pc \in AfterReadPcs
         /\ completed_desc # ExpectedSlot) =>
            descConfig' = descConfig ]_vars


\* ------------------------------------------------ run_stream_to_mem_test
\* conf = (STREAM_OP_INCR | STREAM_FLAG_IRQ_EN) | STREAM_FLAG_VALID, with
\* STREAM_FLAG_CHAIN on every descriptor but the last.
S2MConfigWord(chain) ==
    {STREAM_OP_INCR, STREAM_FLAG_IRQ_EN, STREAM_FLAG_VALID}
        \cup (IF chain THEN {STREAM_FLAG_CHAIN} ELSE {})

\* stream_descriptors[0].CONFIG_REG |= STREAM_FLAG_DEST_RDY
\* (faulty variant: the OR-in left out)
S2MArmNone == {}
S2MArm0Bits == {STREAM_FLAG_DEST_RDY}

\* exhaustive_interrupt_reset: force_dma_stop, mask 0, drain the UIO handle,
\* clear all, re-enable.
S2M_Reset ==
    /\ routine = "s2m"
    /\ pc = "s_reset"
    /\ descConfig' = StoppedDesc(descConfig)
    /\ streamAddr' = StoppedStream
    /\ maskReg' = {}
    /\ uioPending' = FALSE
    /\ status' = ClearedStatus(status, FDMA_IRQ_CLEAR_ALL)
    /\ uioEnabled' = TRUE
    /\ j' = 0
    /\ pc' = "s_desc"
    /\ UNCHANGED << routine, numBuffers, num_transfers, i, descNext,
                    bodyWritten, startReg, ctrlConfig, hwRunning, hwCur, st,
                    completed_desc, observed, raised, streamDesc, srcStarted,
                    outcome, runs, stopCalls, afterFirst, resetPulses,
                    beforeStop, lateIrq, streamRunning, moreVars >>

\* One pass of the configuration loop: DEST_ADDR, BYTE_COUNT and CONFIG of
\* stream descriptor j.
S2M_Desc ==
    /\ routine = "s2m"
    /\ pc = "s_desc"
    /\ j < numBuffers
    /\ IF j = 0
       THEN /\ streamDesc' = S2MConfigWord(j < numBuffers - 1)
            /\ UNCHANGED streamChain
       ELSE /\ streamChain' = Put(streamChain, j, S2MConfigWord(j < numBuffers - 1), {})
            /\ UNCHANGED streamDesc
    /\ streamWords' = Put(streamWords, j,
                          StreamDescWords(
                              StreamConfigValue(S2MConfigWord(j < numBuffers - 1)),
                              buffer_size,
                              STREAM_DEST_OFFSET + j * buffer_size), << >>)
    /\ j' = j + 1
    /\ pc' = IF j + 1 < numBuffers THEN "s_desc" ELSE "s_ptr"
    /\ UNCHANGED << routine, numBuffers, num_transfers, i, descConfig,
                    descNext, bodyWritten, streamAddr, startReg, maskReg,
                    status, ctrlConfig, hwRunning, hwCur, uioPending,
                    uioEnabled, st, completed_desc, observed, raised,
                    srcStarted, outcome, runs, stopCalls, afterFirst,
                    resetPulses, beforeStop, lateIrq, streamRunning, inflight,
                    st1, irqsRead, dma_id, descriptor_id,
                    g_dma_completed_buffer_flag, irqLine, lastFilled,
                    buffer_size, descCount, channel_num, unfenced, destFilled,
                    beforeReset, access, handlerCalls, passes, testedAt,
                    mem_fd, dma_regs, lastCall, apiCalls >>

\* STREAM_ADDR_REG[0] = phys_desc_addr
S2M_Ptr ==
    /\ routine = "s2m"
    /\ pc = "s_ptr"
    /\ streamAddr' = [streamAddr EXCEPT ![0] = 1]
    /\ pc' = "s_mask"
    /\ UNCHANGED << routine, numBuffers, num_transfers, i, j, descConfig,
                    descNext, bodyWritten, startReg, maskReg, status,
                    ctrlConfig, hwRunning, hwCur, uioPending, uioEnabled, st,
                    completed_desc, observed, raised, streamDesc, srcStarted,
                    outcome, runs, stopCalls, afterFirst, resetPulses,
                    beforeStop, lateIrq, streamRunning, moreVars >>

\* INTR_0_MASK_REG = FDMA_IRQ_MASK_ALL
S2M_Mask ==
    /\ routine = "s2m"
    /\ pc = "s_mask"
    /\ maskReg' = FDMA_IRQ_MASK_ALL
    /\ pc' = "s_arm"
    /\ UNCHANGED << routine, numBuffers, num_transfers, i, j, descConfig,
                    descNext, bodyWritten, streamAddr, startReg, status,
                    ctrlConfig, hwRunning, hwCur, uioPending, uioEnabled, st,
                    completed_desc, observed, raised, streamDesc, srcStarted,
                    outcome, runs, stopCalls, afterFirst, resetPulses,
                    beforeStop, lateIrq, streamRunning, moreVars >>

S2M_Arm ==
    /\ routine = "s2m"
    /\ pc = "s_arm"
    /\ streamDesc' = streamDesc \cup S2MArm0Bits
    /\ streamWords' = [streamWords EXCEPT
                          ![0][1] = StreamConfigOr(@, S2MArm0Bits)]
    /\ pc' = "s_start"
    /\ UNCHANGED << routine, numBuffers, num_transfers, i, j, descConfig,
                    descNext, bodyWritten, streamAddr, startReg, maskReg,
                    status, ctrlConfig, hwRunning, hwCur, uioPending,
                    uioEnabled, st, completed_desc, observed, raised,
                    srcStarted, outcome, runs, stopCalls, afterFirst,
                    resetPulses, beforeStop, lateIrq, streamRunning, inflight,
                    st1, streamChain, irqsRead, dma_id, descriptor_id,
                    g_dma_completed_buffer_flag, irqLine, lastFilled,
                    buffer_size, descCount, channel_num, unfenced, destFilled,
                    beforeReset, access, handlerCalls, passes, testedAt,
                    mem_fd, dma_regs, lastCall, apiCalls >>

\* START_OPERATION_REG = FDMA_START_STREAM(0)
S2M_Start ==
    /\ routine = "s2m"
    /\ pc = "s_start"
    /\ startReg' = {FDMA_START_STREAM(0)}
    /\ streamRunning' = TRUE
    /\ pc' = "s_stop"
    /\ UNCHANGED << routine, numBuffers, num_transfers, i, j, descConfig,
                    descNext, bodyWritten, streamAddr, maskReg, status,
                    ctrlConfig, hwRunning, hwCur, uioPending, uioEnabled, st,
                    completed_desc, observed, raised, streamDesc, srcStarted,
                    outcome, runs, stopCalls, afterFirst, resetPulses,
                    beforeStop, lateIrq, moreVars >>

\* force_dma_stop
S2M_Stop ==
    /\ routine = "s2m"
    /\ pc = "s_stop"
    /\ descConfig' = StoppedDesc(descConfig)
    /\ streamAddr' = StoppedStream
    /\ pc' = "done"
    /\ UNCHANGED << routine, numBuffers, num_transfers, i, j, descNext,
                    bodyWritten, startReg, maskReg, status, ctrlConfig,
                    hwRunning, hwCur, uioPending, uioEnabled, st,
                    completed_desc, observed, raised, streamDesc, srcStarted,
                    outcome, runs, stopCalls, afterFirst, resetPulses,
                    beforeStop, lateIrq, streamRunning, moreVars >>

S2M_Cpu ==
    \/ S2M_Reset \/ S2M_Desc \/ S2M_Ptr \/ S2M_Mask \/ S2M_Arm \/ S2M_Start
    \/ S2M_Stop

\* The three routines that start stream channel 0. A routine run earlier may
\* have left a completion flag in the status register.
InitStream ==
    /\ routine \in {"s2m", "ctrl", "stream_src"}
    /\ pc = CASE routine = "ctrl" -> "c_reset"
              [] routine = "stream_src" -> "f_reset"
              [] OTHER -> "s_reset"
    /\ numBuffers \in IF routine = "s2m" THEN 1 .. MaxRing ELSE {1}
    /\ num_transfers = 1
    /\ i = 0
    /\ j = 0
    /\ st = NoStatus
    /\ completed_desc = 0
    /\ observed = << >>
    /\ descConfig = [k \in {} |-> {}]
    /\ descNext = [k \in {} |-> 0]
    /\ bodyWritten = {}
    /\ streamAddr = [k \in StreamIdx |-> 0]
    /\ startReg = {}
    /\ maskReg = {}
    /\ status \in {NoStatus, [flags |-> {"OPS_COMPLETE"}, idx |-> 0]}
    /\ ctrlConfig = 0
    /\ hwRunning = FALSE
    /\ hwCur = 0
    /\ uioPending \in BOOLEAN
    /\ uioEnabled = TRUE
    /\ raised = 0
    /\ streamDesc = {}
    /\ srcStarted = FALSE
    /\ outcome = "none"
    /\ runs = 0
    /\ stopCalls = 0
    /\ afterFirst = << >>
    /\ resetPulses = 0
    /\ beforeStop = << >>
    /\ lateIrq = FALSE
    /\ streamRunning = FALSE
    /\ InitMore

NextStream ==
    \/ S2M_Cpu \/ Ctrl_Cpu \/ Ctrl_SelectError \/ Src_Cpu
    \/ HwStreamInvalid \/ HwStreamDone \/ KernelIrq

SpecStream == InitStream /\ [][NextStream]_vars

\* The bits of START_OPERATION_REG that start a stream channel, in either
\* register map.
StreamStartBits ==
    {FDMA_START_STREAM(n) : n \in StreamIdx}
        \cup {FDMA_START_STREAM_fw(n) : n \in StreamIdx}

StartsStream ==
    /\ startReg' # startReg
    /\ startReg' \cap StreamStartBits # {}

MAX_DMA_CONTROLLERS == 4

DESC_CONFIG_CHAIN_MASK == "CHAIN"
DESC_CONFIG_INTR_ON_PROC_MASK == "INTR_ON_PROC"
DESC_CONFIG_DATA_READY_MASK == "DATA_READY"
DESC_CONFIG_VALID_MASK == "VALID"

\* desc_config = CHAIN | INTR_ON_PROC | DATA_READY | VALID
ContConfigWord ==
    {DESC_CONFIG_CHAIN_MASK, DESC_CONFIG_INTR_ON_PROC_MASK,
     DESC_CONFIG_DATA_READY_MASK, DESC_CONFIG_VALID_MASK}

\* dma_init: the addresses of the four start registers.
Cont_Init ==
    /\ routine = "cont"
    /\ pc = "k_init"
    /\ pc' = "k_check"
    /\ UNCHANGED << routine, numBuffers, num_transfers, i, j, descConfig,
                    descNext, bodyWritten, streamAddr, startReg, maskReg,
                    status, ctrlConfig, hwRunning, hwCur, uioPending,
                    uioEnabled, st, completed_desc, observed, raised,
                    streamDesc, srcStarted, outcome, runs, stopCalls,
                    afterFirst, resetPulses, beforeStop, lateIrq,
                    streamRunning, moreVars >>

\* dma_configure_continuous_stream: if (dma_id >= MAX_DMA_CONTROLLERS) return
Cont_Check ==
    /\ routine = "cont"
    /\ pc = "k_check"
    /\ pc' = IF dma_id >= MAX_DMA_CONTROLLERS THEN "k_start" ELSE "k_body0"
    /\ UNCHANGED << routine, numBuffers, num_transfers, i, j, descConfig,
                    descNext, bodyWritten, streamAddr, startReg, maskReg,
                    status, ctrlConfig, hwRunning, hwCur, uioPending,
                    uioEnabled, st, completed_desc, observed, raised,
                    streamDesc, srcStarted, outcome, runs, stopCalls,
                    afterFirst, resetPulses, beforeStop, lateIrq,
                    streamRunning, moreVars >>

\* Descriptor 0: DEST_ADDR, BYTE_COUNT, NEXT_DESC = 1
Cont_Body0 ==
    /\ routine = "cont"
    /\ pc = "k_body0"
    /\ bodyWritten' = bodyWritten \cup {0}
    /\ descNext' = Put(descNext, 0, 1, 0)
    /\ pc' = "k_conf0"
    /\ UNCHANGED << routine, numBuffers, num_transfers, i, j, descConfig,
                    streamAddr, startReg, maskReg, status, ctrlConfig,
                    hwRunning, hwCur, uioPending, uioEnabled, st,
                    completed_desc, observed, raised, streamDesc, srcStarted,
                    outcome, runs, stopCalls, afterFirst, resetPulses,
                    beforeStop, lateIrq, streamRunning, moreVars >>

Cont_Conf0 ==
    /\ routine = "cont"
    /\ pc = "k_conf0"
    /\ descConfig' = SetConfig(descConfig, 0, ContConfigWord)
    /\ pc' = "k_body1"
    /\ UNCHANGED << routine, numBuffers, num_transfers, i, j, descNext,
                    bodyWritten, streamAddr, startReg, maskReg, status,
                    ctrlConfig, hwRunning, hwCur, uioPending, uioEnabled, st,
                    completed_desc, observed, raised, streamDesc, srcStarted,
                    outcome, runs, stopCalls, afterFirst, resetPulses,
                    beforeStop, lateIrq, streamRunning, moreVars >>

\* Descriptor 1: DEST_ADDR, BYTE_COUNT, NEXT_DESC = 0
Cont_Body1 ==
    /\ routine = "cont"
    /\ pc = "k_body1"
    /\ bodyWritten' = bodyWritten \cup {1}
    /\ descNext' = Put(descNext, 1, 0, 0)
    /\ pc' = "k_conf1"
    /\ UNCHANGED << routine, numBuffers, num_transfers, i, j, descConfig,
                    streamAddr, startReg, maskReg, status, ctrlConfig,
                    hwRunning, hwCur, uioPending, uioEnabled, st,
                    completed_desc, observed, raised, streamDesc, srcStarted,
                    outcome, runs, stopCalls, afterFirst, resetPulses,
                    beforeStop, lateIrq, streamRunning, moreVars >>

Cont_Conf1 ==
    /\ routine = "cont"
    /\ pc = "k_conf1"
    /\ descConfig' = SetConfig(descConfig, 1, ContConfigWord)
    /\ pc' = "k_start"
    /\ UNCHANGED << routine, numBuffers, num_transfers, i, j, descNext,
                    bodyWritten, streamAddr, startReg, maskReg, status,
                    ctrlConfig, hwRunning, hwCur, uioPending, uioEnabled, st,
                    completed_desc, observed, raised, streamDesc, srcStarted,
                    outcome, runs, stopCalls, afterFirst, resetPulses,
                    beforeStop, lateIrq, streamRunning, moreVars >>

\* dma_start_transfer: *g_dma_start_reg[dma_id] = (1u << descriptor_id)
Cont_Start ==
    /\ routine = "cont"
    /\ pc = "k_start"
    /\ IF dma_id < MAX_DMA_CONTROLLERS
       THEN /\ startReg' = {descriptor_id}
            /\ hwRunning' = TRUE
            /\ hwCur' = descriptor_id
       ELSE UNCHANGED << startReg, hwRunning, hwCur >>
    /\ pc' = "k_loop"
    /\ UNCHANGED << routine, numBuffers, num_transfers, i, j, descConfig,
                    descNext, bodyWritten, streamAddr, maskReg, status,
                    ctrlConfig, uioPending, uioEnabled, st, completed_desc,
                    observed, raised, streamDesc, srcStarted, outcome, runs,
                    stopCalls, afterFirst, resetPulses, beforeStop, lateIrq,
                    streamRunning, moreVars >>

\* The maximum number of handler invocations followed.
MaxHandlerCalls == 3

\* while (1): if (g_dma_completed_buffer_flag): the load of the flag. A load
\* that finds the flag clear leaves the loop where it is.
Cont_Test ==
    /\ routine = "cont"
    /\ pc = "k_loop"
    /\ g_dma_completed_buffer_flag # 0
    /\ testedAt' = handlerCalls
    /\ pc' = "k_clear"
    /\ UNCHANGED << routine, numBuffers, num_transfers, i, j, descConfig,
                    descNext, bodyWritten, streamAddr, startReg, maskReg,
                    status, ctrlConfig, hwRunning, hwCur, uioPending,
                    uioEnabled, st, completed_desc, observed, raised,
                    streamDesc, srcStarted, outcome, runs, stopCalls,
                    afterFirst, resetPulses, beforeStop, lateIrq,
                    streamRunning, inflight, st1, streamChain, irqsRead,
                    dma_id, descriptor_id, irqLine, lastFilled, buffer_size,
                    descCount, channel_num, streamWords, unfenced, destFilled,
                    beforeReset, access, handlerCalls, passes,
                    g_dma_completed_buffer_flag, mem_fd, dma_regs, lastCall,
                    apiCalls >>

\* The mutation of Cont_Clear: the store of 0 is left out.
Cont_ClearLeftOut ==
    /\ routine = "cont"
    /\ pc = "k_clear"
    /\ pc' = "k_report"
    /\ UNCHANGED << routine, numBuffers, num_transfers, i, j, descConfig,
                    descNext, bodyWritten, streamAddr, startReg, maskReg,
                    status, ctrlConfig, hwRunning, hwCur, uioPending,
                    uioEnabled, st, completed_desc, observed, raised,
                    streamDesc, srcStarted, outcome, runs, stopCalls,
                    afterFirst, resetPulses, beforeStop, lateIrq,
                    streamRunning, inflight, st1, streamChain, irqsRead,
                    dma_id, descriptor_id, irqLine, lastFilled, buffer_size,
                    descCount, channel_num, streamWords, unfenced, destFilled,
                    beforeReset, access, handlerCalls, passes, testedAt,
                    g_dma_completed_buffer_flag, mem_fd, dma_regs, lastCall,
                    apiCalls >>

\* g_dma_completed_buffer_flag = 0: a store separate from the load above, so
\* the handler can run between the two.
Cont_Clear ==
    /\ routine = "cont"
    /\ pc = "k_clear"
    /\ g_dma_completed_buffer_flag' = 0
    /\ pc' = "k_report"
    /\ UNCHANGED << routine, numBuffers, num_transfers, i, j, descConfig,
                    descNext, bodyWritten, streamAddr, startReg, maskReg,
                    status, ctrlConfig, hwRunning, hwCur, uioPending,
                    uioEnabled, st, completed_desc, observed, raised,
                    streamDesc, srcStarted, outcome, runs, stopCalls,
                    afterFirst, resetPulses, beforeStop, lateIrq,
                    streamRunning, inflight, st1, streamChain, irqsRead,
                    dma_id, descriptor_id, irqLine, lastFilled, buffer_size,
                    descCount, channel_num, streamWords, unfenced,
                    destFilled, beforeReset, access, handlerCalls, passes,
                    testedAt, mem_fd, dma_regs, lastCall, apiCalls >>

\* sprintf and MSS_UART_polled_tx of the report; the descriptor is not
\* re-armed.
Cont_Report ==
    /\ routine = "cont"
    /\ pc = "k_report"
    /\ pc' = "k_loop"
    /\ passes' = passes + 1
    /\ UNCHANGED << routine, numBuffers, num_transfers, i, j, descConfig,
                    descNext, bodyWritten, streamAddr, startReg, maskReg,
                    status, ctrlConfig, hwRunning, hwCur, uioPending,
                    uioEnabled, st, completed_desc, observed, raised,
                    streamDesc, srcStarted, outcome, runs, stopCalls,
                    afterFirst, resetPulses, beforeStop, lateIrq,
                    streamRunning, streamVars, unfenced, destFilled,
                    beforeReset, access, handlerCalls, testedAt, mem_fd,
                    dma_regs, lastCall, apiCalls >>

Cont_Cpu ==
    \/ Cont_Init \/ Cont_Check \/ Cont_Body0 \/ Cont_Conf0 \/ Cont_Body1
    \/ Cont_Conf1 \/ Cont_Start \/ Cont_Test \/ Cont_Clear \/ Cont_Report

\* fabric_f2h_6_plic_IRQHandler: sets the flag; it neither reads nor clears
\* the controller's interrupt status, so the line stays asserted.
Cont_IRQHandler ==
    /\ routine = "cont"
    /\ irqLine
    /\ handlerCalls < MaxHandlerCalls
    /\ g_dma_completed_buffer_flag' = 1
    /\ handlerCalls' = handlerCalls + 1
    /\ UNCHANGED << routine, pc, numBuffers, num_transfers, i, j, descConfig,
                    descNext, bodyWritten, streamAddr, startReg, maskReg,
                    status, ctrlConfig, hwRunning, hwCur, uioPending,
                    uioEnabled, st, completed_desc, observed, raised,
                    streamDesc, srcStarted, outcome, runs, stopCalls,
                    afterFirst, resetPulses, beforeStop, lateIrq,
                    streamRunning, inflight, st1, streamChain, irqsRead,
                    dma_id, descriptor_id, irqLine, lastFilled, buffer_size,
                    descCount, channel_num, streamWords, unfenced, destFilled,
                    beforeReset, access, passes, testedAt, mem_fd, dma_regs,
                    lastCall, apiCalls >>

\* The controller fills the buffer of the descriptor it is at when that
\* descriptor is valid and its data-ready bit is set; on completion it takes
\* the data-ready bit back, raises the interrupt if asked to, and follows the
\* chain.
HwContProcess ==
    /\ routine = "cont"
    /\ hwRunning
    /\ {DESC_CONFIG_VALID_MASK, DESC_CONFIG_DATA_READY_MASK}
           \subseteq Cfg(descConfig, hwCur)
    /\ descConfig' = AndNotConfig(descConfig, hwCur, {DESC_CONFIG_DATA_READY_MASK})
    /\ lastFilled' = hwCur
    /\ irqLine' = (irqLine \/ DESC_CONFIG_INTR_ON_PROC_MASK \in Cfg(descConfig, hwCur))
    /\ IF DESC_CONFIG_CHAIN_MASK \in Cfg(descConfig, hwCur)
       THEN /\ hwCur' = Nxt(descNext, hwCur)
            /\ UNCHANGED hwRunning
       ELSE /\ hwRunning' = FALSE
            /\ UNCHANGED hwCur
    /\ UNCHANGED << routine, pc, numBuffers, num_transfers, i, j, descNext,
                    bodyWritten, streamAddr, startReg, maskReg, status,
                    ctrlConfig, uioPending, uioEnabled, st, completed_desc,
                    observed, raised, streamDesc, srcStarted, outcome, runs,
                    stopCalls, afterFirst, resetPulses, beforeStop, lateIrq,
                    streamRunning, inflight, st1, streamChain, irqsRead,
                    dma_id, descriptor_id, g_dma_completed_buffer_flag,
                    buffer_size, descCount, channel_num, streamWords,
                    unfenced, destFilled, beforeReset, access, handlerCalls,
                    passes, testedAt, mem_fd, dma_regs, lastCall, apiCalls >>

InitCont ==
    /\ routine = "cont"
    /\ pc = "k_init"
    /\ numBuffers = 2
    /\ num_transfers = 1
    /\ i = 0
    /\ j = 0
    /\ st = NoStatus
    /\ completed_desc = 0
    /\ observed = << >>
    /\ descConfig = [k \in {} |-> {}]
    /\ descNext = [k \in {} |-> 0]
    /\ bodyWritten = {}
    /\ streamAddr = [k \in StreamIdx |-> 0]
    /\ startReg = {}
    /\ maskReg = {}
    /\ status = NoStatus
    /\ ctrlConfig = 0
    /\ hwRunning = FALSE
    /\ hwCur = 0
    /\ uioPending = FALSE
    /\ uioEnabled = TRUE
    /\ raised = 0
    /\ streamDesc = {}
    /\ srcStarted = FALSE
    /\ outcome = "none"
    /\ runs = 0
    /\ stopCalls = 0
    /\ afterFirst = << >>
    /\ resetPulses = 0
    /\ beforeStop = << >>
    /\ lateIrq = FALSE
    /\ streamRunning = FALSE
    /\ inflight = -1
    /\ st1 = NoStatus
    /\ streamChain = [k \in {} |-> {}]
    /\ irqsRead = 0
    /\ dma_id \in 0 .. MAX_DMA_CONTROLLERS
    /\ descriptor_id \in {0, 1}
    /\ g_dma_completed_buffer_flag = 0
    /\ irqLine = FALSE
    /\ lastFilled = -1
    /\ buffer_size = 4096
    /\ descCount = [k \in {} |-> 0]
    /\ channel_num = 0
    /\ streamWords = [k \in {} |-> << >>]
    /\ unfenced = {}
    /\ destFilled = {}
    /\ beforeReset = {}
    /\ access = {}
    /\ handlerCalls = 0
    /\ passes = 0
    /\ testedAt = 0
    /\ mem_fd = -1
    /\ dma_regs = 0
    /\ lastCall = [fn |-> "none", sys |-> << >>, ret |-> 0]
    /\ apiCalls = 0

NextCont == Cont_Cpu \/ Cont_IRQHandler \/ HwContProcess

SpecCont == InitCont /\ [][NextCont]_vars

\* The hardware, the hart and the PLIC all keep running.
FairSpecCont ==
    /\ SpecCont
    /\ WF_vars(HwContProcess)
    /\ WF_vars(Cont_Cpu)
    /\ WF_vars(Cont_IRQHandler)

\* C15: once dma_start_transfer has started descriptor 0 of the chain built
\* by dma_configure_continuous_stream, buffer A (descriptor 0) and buffer B
\* (descriptor 1) are each filled again and again, forever.
C15_LoopsForever ==
    [] ((routine = "cont" /\ startReg = {0}) =>
            (<>(lastFilled = 0) /\ <>(lastFilled = 1)))


\* ------------------- ring configuration (rh_dma_run_m2m_ping_pong_test)
\* Largest NUM_BUFFERS tried: one more than the controller has descriptors.
MaxRingSlots == 33

\* Width in bits of the byte-count field of a descriptor.
ByteCountBits == 23

MaxByteCount == Pow2(ByteCountBits) - 1

\* desc->BYTE_COUNT_REG = byte_count: a uint32_t argument stored in a
\* uint32_t register, neither checked nor masked.
ByteCountWritten(byte_count) == byte_count

\* for (int i = 0; i < NUM_BUFFERS; ++i)
Ring_Loop ==
    /\ routine = "ring_cfg"
    /\ pc = "r_loop"
    /\ pc' = IF i < numBuffers THEN "r_check" ELSE "r_mask"
    /\ UNCHANGED << routine, numBuffers, num_transfers, i, j, descConfig,
                    descNext, bodyWritten, streamAddr, startReg, maskReg,
                    status, ctrlConfig, hwRunning, hwCur, uioPending,
                    uioEnabled, st, completed_desc, observed, raised,
                    streamDesc, srcStarted, outcome, runs, stopCalls,
                    afterFirst, resetPulses, beforeStop, lateIrq,
                    streamRunning, moreVars >>

\* dma_configure_m2m_descriptor: if (index > 31) return;
Ring_Check ==
    /\ routine = "ring_cfg"
    /\ pc = "r_check"
    /\ IF i > 31
       THEN /\ i' = i + 1
            /\ pc' = "r_loop"
       ELSE /\ pc' = "r_body"
            /\ UNCHANGED i
    /\ UNCHANGED << routine, numBuffers, num_transfers, j, descConfig,
                    descNext, bodyWritten, streamAddr, startReg, maskReg,
                    status, ctrlConfig, hwRunning, hwCur, uioPending,
                    uioEnabled, st, completed_desc, observed, raised,
                    streamDesc, srcStarted, outcome, runs, stopCalls,
                    afterFirst, resetPulses, beforeStop, lateIrq,
                    streamRunning, moreVars >>

\* SOURCE_ADDR_REG, DEST_ADDR_REG, BYTE_COUNT_REG
Ring_Body ==
    /\ routine = "ring_cfg"
    /\ pc = "r_body"
    /\ bodyWritten' = bodyWritten \cup {i}
    /\ descCount' = Put(descCount, i, ByteCountWritten(buffer_size), 0)
    /\ pc' = "r_next"
    /\ UNCHANGED << routine, numBuffers, num_transfers, i, j, descConfig,
                    descNext, streamAddr, startReg, maskReg, status,
                    ctrlConfig, hwRunning, hwCur, uioPending, uioEnabled, st,
                    completed_desc, observed, raised, streamDesc, srcStarted,
                    outcome, runs, stopCalls, afterFirst, resetPulses,
                    beforeStop, lateIrq, streamRunning, inflight, st1,
                    streamChain, irqsRead, dma_id, descriptor_id,
                    g_dma_completed_buffer_flag, irqLine, lastFilled,
                    buffer_size, channel_num, streamWords, unfenced,
                    destFilled, beforeReset, access, handlerCalls, passes,
                    testedAt, mem_fd, dma_regs, lastCall, apiCalls >>

\* NEXT_DESC_ADDR_REG = next_desc_index, which is (i + 1) % NUM_BUFFERS
Ring_Next ==
    /\ routine = "ring_cfg"
    /\ pc = "r_next"
    /\ descNext' = Put(descNext, i, (i + 1) % numBuffers, 0)
    /\ pc' = "r_conf"
    /\ UNCHANGED << routine, numBuffers, num_transfers, i, j, descConfig,
                    bodyWritten, streamAddr, startReg, maskReg, status,
                    ctrlConfig, hwRunning, hwCur, uioPending, uioEnabled, st,
                    completed_desc, observed, raised, streamDesc, srcStarted,
                    outcome, runs, stopCalls, afterFirst, resetPulses,
                    beforeStop, lateIrq, streamRunning, moreVars >>

\* CONFIG_REG = config, with chain = 1; the function returns nothing.
Ring_Conf ==
    /\ routine = "ring_cfg"
    /\ pc = "r_conf"
    /\ descConfig' = SetConfig(descConfig, i, M2MConfigWord(TRUE))
    /\ i' = i + 1
    /\ pc' = "r_loop"
    /\ UNCHANGED << routine, numBuffers, num_transfers, j, descNext,
                    bodyWritten, streamAddr, startReg, maskReg, status,
                    ctrlConfig, hwRunning, hwCur, uioPending, uioEnabled, st,
                    completed_desc, observed, raised, streamDesc, srcStarted,
                    outcome, runs, stopCalls, afterFirst, resetPulses,
                    beforeStop, lateIrq, streamRunning, moreVars >>

\* INTR_0_MASK_REG = FDMA_IRQ_MASK_ALL
Ring_Mask ==
    /\ routine = "ring_cfg"
    /\ pc = "r_mask"
    /\ maskReg' = FDMA_IRQ_MASK_ALL
    /\ pc' = "r_arm0"
    /\ UNCHANGED << routine, numBuffers, num_transfers, i, j, descConfig,
                    descNext, bodyWritten, streamAddr, startReg, status,
                    ctrlConfig, hwRunning, hwCur, uioPending, uioEnabled, st,
                    completed_desc, observed, raised, streamDesc, srcStarted,
                    outcome, runs, stopCalls, afterFirst, resetPulses,
                    beforeStop, lateIrq, streamRunning, moreVars >>

\* DESCRIPTOR[0].CONFIG_REG |= (MEM_FLAG_SRC_RDY | MEM_FLAG_DEST_RDY)
Ring_Arm0 ==
    /\ routine = "ring_cfg"
    /\ pc = "r_arm0"
    /\ descConfig' = OrConfig(descConfig, 0, {MEM_FLAG_SRC_RDY, MEM_FLAG_DEST_RDY})
    /\ pc' = "r_start"
    /\ UNCHANGED << routine, numBuffers, num_transfers, i, j, descNext,
                    bodyWritten, streamAddr, startReg, maskReg, status,
                    ctrlConfig, hwRunning, hwCur, uioPending, uioEnabled, st,
                    completed_desc, observed, raised, streamDesc, srcStarted,
                    outcome, runs, stopCalls, afterFirst, resetPulses,
                    beforeStop, lateIrq, streamRunning, moreVars >>

\* dma_start_channel(&dma_inst, 0); the transfer loop follows.
Ring_Start ==
    /\ routine = "ring_cfg"
    /\ pc = "r_start"
    /\ startReg' = {0}
    /\ pc' = "r_wait"
    /\ UNCHANGED << routine, numBuffers, num_transfers, i, j, descConfig,
                    descNext, bodyWritten, streamAddr, maskReg, status,
                    ctrlConfig, hwRunning, hwCur, uioPending, uioEnabled, st,
                    completed_desc, observed, raised, streamDesc, srcStarted,
                    outcome, runs, stopCalls, afterFirst, resetPulses,
                    beforeStop, lateIrq, streamRunning, moreVars >>

Ring_Cpu ==
    \/ Ring_Loop \/ Ring_Check \/ Ring_Body \/ Ring_Next \/ Ring_Conf
    \/ Ring_Mask \/ Ring_Arm0 \/ Ring_Start

InitRing ==
    /\ routine = "ring_cfg"
    /\ pc = "r_loop"
    /\ numBuffers \in {0, 1, 2, NumDescriptors, MaxRingSlots}
    /\ num_transfers = 1
    /\ i = 0
    /\ j = 0
    /\ st = NoStatus
    /\ completed_desc = 0
    /\ observed = << >>
    /\ descConfig = [k \in {} |-> {}]
    /\ descNext = [k \in {} |-> 0]
    /\ bodyWritten = {}
    /\ streamAddr = [k \in StreamIdx |-> 0]
    /\ startReg = {}
    /\ maskReg = {}
    /\ status = NoStatus
    /\ ctrlConfig = 0
    /\ hwRunning = FALSE
    /\ hwCur = 0
    /\ uioPending = FALSE
    /\ uioEnabled = TRUE
    /\ raised = 0
    /\ streamDesc = {}
    /\ srcStarted = FALSE
    /\ outcome = "none"
    /\ runs = 0
    /\ stopCalls = 0
    /\ afterFirst = << >>
    /\ resetPulses = 0
    /\ beforeStop = << >>
    /\ lateIrq = FALSE
    /\ streamRunning = FALSE
    /\ inflight = -1
    /\ st1 = NoStatus
    /\ streamChain = [k \in {} |-> {}]
    /\ irqsRead = 0
    /\ dma_id = 0
    /\ descriptor_id = 0
    /\ g_dma_completed_buffer_flag = 0
    /\ irqLine = FALSE
    /\ lastFilled = -1
    /\ buffer_size \in {0, 4096, 1048576, MaxByteCount, MaxByteCount + 1,
                        2147483647}
    /\ descCount = [k \in {} |-> 0]
    /\ channel_num = 0
    /\ streamWords = [k \in {} |-> << >>]
    /\ unfenced = {}
    /\ destFilled = {}
    /\ beforeReset = {}
    /\ access = {}
    /\ handlerCalls = 0
    /\ passes = 0
    /\ testedAt = 0
    /\ mem_fd = -1
    /\ dma_regs = 0
    /\ lastCall = [fn |-> "none", sys |-> << >>, ret |-> 0]
    /\ apiCalls = 0

SpecRing == InitRing /\ [][Ring_Cpu]_vars

\* No register of the controller has been written.
NoRegisterWritten ==
    /\ bodyWritten = {}
    /\ DOMAIN descCount = {}
    /\ DOMAIN descNext = {}
    /\ DOMAIN descConfig = {}
    /\ maskReg = {}
    /\ startReg = {}

\* C16: a byte count above what the byte-count field holds is rejected with
\* an error before any descriptor register is written; BYTE_COUNT_REG never
\* gets the value, neither truncated nor unchanged.
C16_OversizeCountRejected ==
    (routine = "ring_cfg" /\ numBuffers > 0 /\ buffer_size > MaxByteCount) =>
        (/\ bodyWritten = {}
         /\ \A k \in DOMAIN descCount :
                descCount[k] \notin {buffer_size, buffer_size % (MaxByteCount + 1)}
         /\ DOMAIN descConfig = {}
         /\ pc = "r_wait" => outcome = "error")

\* C17: a ring of 0 slots, of more than 32 slots, or of buffer size 0 is
\* rejected with an error before any controller register is written.
C17_BadRingRejected ==
    (/\ routine = "ring_cfg"
     /\ \/ numBuffers = 0
        \/ numBuffers > NumDescriptors
        \/ buffer_size = 0) =>
        (/\ NoRegisterWritten
         /\ pc = "r_wait" => outcome = "error")

\* ------------------------------------ the two reads of the status query
\* The loopback test while the controller may still be finishing a transfer
\* of an earlier run.
InitPoll ==
    /\ routine = "loopback"
    /\ pc = "l_body"
    /\ numBuffers = 1
    /\ num_transfers = 1
    /\ i = 0
    /\ j = 0
    /\ descConfig = [k \in {} |-> {}]
    /\ descNext = [k \in {} |-> 0]
    /\ bodyWritten = {}
    /\ streamAddr = [k \in StreamIdx |-> 0]
    /\ startReg = {}
    /\ maskReg = {}
    /\ status = NoStatus
    /\ ctrlConfig = 0
    /\ hwRunning = FALSE
    /\ hwCur = 0
    /\ uioPending = FALSE
    /\ uioEnabled = TRUE
    /\ st = NoStatus
    /\ completed_desc = 0
    /\ observed = << >>
    /\ raised = 0
    /\ streamDesc = {}
    /\ srcStarted = FALSE
    /\ outcome = "none"
    /\ runs = 0
    /\ stopCalls = 0
    /\ afterFirst = << >>
    /\ resetPulses = 0
    /\ beforeStop = << >>
    /\ lateIrq = FALSE
    /\ streamRunning = FALSE
    /\ inflight \in -1 .. MaxRing
    /\ st1 = NoStatus
    /\ streamChain = [k \in {} |-> {}]
    /\ irqsRead = 0
    /\ dma_id = 0
    /\ descriptor_id = 0
    /\ g_dma_completed_buffer_flag = 0
    /\ irqLine = FALSE
    /\ lastFilled = -1
    /\ buffer_size = 4096
    /\ descCount = [k \in {} |-> 0]
    /\ channel_num = 0
    /\ streamWords = [k \in {} |-> << >>]
    /\ unfenced = {}
    /\ destFilled = {}
    /\ beforeReset = {}
    /\ access = {}
    /\ handlerCalls = 0
    /\ passes = 0
    /\ testedAt = 0
    /\ mem_fd = -1
    /\ dma_regs = 0
    /\ lastCall = [fn |-> "none", sys |-> << >>, ret |-> 0]
    /\ apiCalls = 0

NextPoll == Loop_Cpu \/ HwProcess \/ HwStaleComplete

SpecPoll == InitPoll /\ [][NextPoll]_vars

\* C18: DMA_GetInterruptStatus returns -1 when bit 0 of the status it read is
\* clear, and otherwise the descriptor number held in bits [9:4] of that same
\* status value, whatever the hardware does to the register meanwhile.
C18_QueryReturnsTestedValue ==
    [][ (routine = "loopback" /\ CpuStep) =>
            (/\ (pc = "l_poll" /\ i < PollLimit
                    /\ "OPS_COMPLETE" \notin status.flags) =>
                        completed_desc' = -1
             /\ pc = "l_poll2" => completed_desc' = CompletedDesc(st1)) ]_vars


\* ------------------------------------------------ START_OPERATION_REG
\* Largest channel number handed to dma_start_channel.
MaxChannel == 17

\* dma_start_channel: if (channel_num > 15) return;
\* START_OPERATION_REG = FDMA_START_MEM(channel_num)
Start_Channel ==
    /\ routine = "start_channel"
    /\ pc = "sc_call"
    /\ startReg' = IF channel_num > 15 THEN startReg
                   ELSE {FDMA_START_MEM(channel_num)}
    /\ hwRunning' = (hwRunning \/ channel_num = 0)
    /\ pc' = "done"
    /\ UNCHANGED << routine, numBuffers, num_transfers, i, j, descConfig,
                    descNext, bodyWritten, streamAddr, maskReg, status,
                    ctrlConfig, hwCur, uioPending, uioEnabled, st,
                    completed_desc, observed, raised, streamDesc, srcStarted,
                    outcome, runs, stopCalls, afterFirst, resetPulses,
                    beforeStop, lateIrq, streamRunning, moreVars >>

\* Every routine that writes a start bit.
InitStart ==
    /\ routine \in {"pp_uio", "pp_rh", "loopback", "ctrl", "s2m", "stream_src", "start_channel"}
    /\ pc = CASE routine = "ctrl" -> "c_reset"
              [] routine = "loopback" -> "l_body"
              [] routine = "stream_src" -> "f_reset"
              [] routine = "s2m" -> "s_reset"
              [] routine = "start_channel" -> "sc_call"
              [] OTHER -> "reset"
    /\ numBuffers \in IF routine \in {"pp_uio", "pp_rh", "s2m"} THEN 1 .. MaxRing ELSE {1}
    /\ num_transfers \in IF routine \in {"pp_uio", "pp_rh"} THEN 1 .. MaxTransfers ELSE {1}
    /\ i = 0
    /\ j = 0
    /\ descConfig = [k \in {} |-> {}]
    /\ descNext = [k \in {} |-> 0]
    /\ bodyWritten = {}
    /\ streamAddr = [k \in StreamIdx |-> 0]
    /\ startReg = {}
    /\ maskReg = {}
    /\ status = NoStatus
    /\ ctrlConfig = 0
    /\ hwRunning = FALSE
    /\ hwCur = 0
    /\ uioPending \in IF routine = "stream_src" THEN BOOLEAN ELSE {FALSE}
    /\ uioEnabled = TRUE
    /\ st = NoStatus
    /\ completed_desc = 0
    /\ observed = << >>
    /\ raised = 0
    /\ streamDesc = {}
    /\ srcStarted = FALSE
    /\ outcome = "none"
    /\ runs = 0
    /\ stopCalls = 0
    /\ afterFirst = << >>
    /\ resetPulses = 0
    /\ beforeStop = << >>
    /\ lateIrq = FALSE
    /\ streamRunning = FALSE
    /\ inflight = -1
    /\ st1 = NoStatus
    /\ streamChain = [k \in {} |-> {}]
    /\ irqsRead = 0
    /\ dma_id = 0
    /\ descriptor_id = 0
    /\ g_dma_completed_buffer_flag = 0
    /\ irqLine = FALSE
    /\ lastFilled = -1
    /\ buffer_size = 4096
    /\ descCount = [k \in {} |-> 0]
    /\ channel_num \in IF routine = "start_channel" THEN 0 .. MaxChannel ELSE {0}
    /\ streamWords = [k \in {} |-> << >>]
    /\ unfenced = {}
    /\ destFilled = {}
    /\ beforeReset = {}
    /\ access = {}
    /\ handlerCalls = 0
    /\ passes = 0
    /\ testedAt = 0
    /\ mem_fd = -1
    /\ dma_regs = 0
    /\ lastCall = [fn |-> "none", sys |-> << >>, ret |-> 0]
    /\ apiCalls = 0

NextStart == NextWait \/ S2M_Cpu \/ Start_Channel

SpecStart == InitStart /\ [][NextStart]_vars

\* A write to START_OPERATION_REG that starts something.
StartWrite == startReg' # startReg /\ startReg' # {}

\* C19 (as claimed): every start write for an internal channel i in 0..3 or
\* a stream channel j in 0..3 has exactly bit i, or exactly bit 16+j, set.
C19_StartBitsOneMap ==
    [][ (StartWrite /\ channel_num \in 0 .. 3) =>
            \/ \E n \in 0 .. 3 : startReg' = {n}
            \/ \E n \in StreamIdx : startReg' = {16 + n} ]_vars

\* C19: every start write sets exactly one bit: bit 0 where a test routine
\* starts internal channel 0, bit channel_num (at most 15) in
\* dma_start_channel, bit 16 where stream channel 0 is started in the
\* CoreAXI4DMAController register map, bit 8 where it is started in the
\* register map of the firmware.
C19_StartBitsPerMap ==
    [][ StartWrite =>
            /\ Cardinality(startReg') = 1
            /\ routine \in {"pp_uio", "pp_rh", "loopback"} => startReg' = {0}
            /\ routine = "start_channel" =>
                    (channel_num <= 15 /\ startReg' = {channel_num})
            /\ routine \in {"ctrl", "s2m"} => startReg' = {16}
            /\ routine = "stream_src" => startReg' = {8} ]_vars

C19_Witness ==
    /\ routine = "s2m"
    /\ pc = "s_stop"
    /\ startReg = {16}

\* ------------------------------------------ stream descriptor layout
\* The stream descriptors written by this step.
WrittenNow ==
    {k \in DOMAIN streamWords' :
        k \notin DOMAIN streamWords \/ streamWords'[k] # streamWords[k]}

\* The destination, length and flags the routine asked for in descriptor k,
\* after the step.
RequestedNow(k) ==
    [dest_addr |-> CASE routine = "stream_src" -> FwStreamDestOffset
                     [] routine = "s2m" -> STREAM_DEST_OFFSET + k * buffer_size
                     [] OTHER -> STREAM_DEST_OFFSET,
     byte_count |-> CASE routine = "stream_src" -> test_size
                      [] routine = "s2m" -> buffer_size
                      [] OTHER -> 1024,
     flags |-> IF k = 0 THEN streamDesc' ELSE streamChain'[k]]

\* Three words read as CONFIG, BYTE_COUNT, DEST_ADDR with CONFIG bits
\* 0 increment, 1 chain, 2 DEST_RDY, 3 VALID, 4 IRQ_EN.
ThreeWordDecode(w) ==
    [dest_addr |-> w[3],
     byte_count |-> w[2],
     flags |-> (IF HasBit(w[1], 0) THEN {"INCR"} ELSE {})
               \cup (IF HasBit(w[1], 1) THEN {"CHAIN"} ELSE {})
               \cup (IF HasBit(w[1], 2) THEN {"DEST_RDY"} ELSE {})
               \cup (IF HasBit(w[1], 3) THEN {"VALID"} ELSE {})
               \cup (IF HasBit(w[1], 4) THEN {"IRQ_EN"} ELSE {})]

\* Four words read as SRC_ADDR, DEST_ADDR, BYTE_COUNT, CONFIG with CONFIG
\* bits 0 increment, 1 IRQ_EN, 2 DEST_RDY, 3 VALID.
FourWordDecode(w) ==
    [dest_addr |-> w[2],
     byte_count |-> w[3],
     flags |-> (IF HasBit(w[4], 0) THEN {"INCR"} ELSE {})
               \cup (IF HasBit(w[4], 1) THEN {"IRQ_EN"} ELSE {})
               \cup (IF HasBit(w[4], 2) THEN {"DEST_RDY"} ELSE {})
               \cup (IF HasBit(w[4], 3) THEN {"VALID"} ELSE {})]

\* C20 (as stated): every stream descriptor the CPU writes holds CONFIG,
\* BYTE_COUNT, DEST_ADDR in words 0, 1, 2 with CONFIG bits 0, 2, 3, 4 for
\* increment, DEST_DATA_READY, VALID, IRQ_EN, so decoding the written words
\* with this layout recovers the requested destination, length and flags.
C20_OneLayout ==
    [][ \A k \in WrittenNow :
           ThreeWordDecode(streamWords'[k]) = RequestedNow(k) ]_vars

\* C20: the three-word layout is that of the routines written against the
\* CoreAXI4DMAController map (run_control_path_validation_test,
\* run_stream_to_mem_test); the stream test of the custom controller writes
\* four words SRC_ADDR, DEST_ADDR, BYTE_COUNT, CONFIG with IRQ_EN at bit 1.
\* Decoding each written descriptor with the layout of its own map recovers
\* the requested destination, length and flags.
C20_LayoutPerMap ==
    [][ \A k \in WrittenNow :
           IF routine = "stream_src"
           THEN /\ Len(streamWords'[k]) = 4
                /\ FourWordDecode(streamWords'[k]) = RequestedNow(k)
           ELSE /\ Len(streamWords'[k]) = 3
                /\ ThreeWordDecode(streamWords'[k]) = RequestedNow(k) ]_vars

\* A chain of at least two three-word descriptors written and descriptor 0
\* armed: CONFIG = INCR | CHAIN | DEST_RDY | VALID | IRQ_EN.
C20_Witness ==
    /\ routine = "s2m"
    /\ pc = "s_start"
    /\ numBuffers >= 2
    /\ DOMAIN streamWords = 0 .. numBuffers - 1
    /\ streamWords[0] = << 31, buffer_size, STREAM_DEST_OFFSET >>
    /\ streamWords[numBuffers - 1][1] = 25


\* ------------------------------------------------------ memory barriers
\* The step writes START_OPERATION_REG to start internal channel 0.
StartsMem == pc \in {"start", "l_start"} /\ pc' # pc

\* C21: in the arm-and-start sequences of the ping-pong runs and of the
\* loopback test, a memory barrier lies between the last store to a
\* descriptor field and the store to START_OPERATION_REG, and a barrier lies
\* between the descriptor body stores and the store that sets VALID.
C21_BarriersInPlace ==
    [][ (routine \in {"pp_uio", "pp_rh", "loopback"}) =>
          /\ StartsMem => unfenced = {}
          /\ \A k \in DescIdx :
                (/\ MEM_FLAG_VALID \notin Cfg(descConfig, k)
                 /\ MEM_FLAG_VALID \in Cfg(descConfig', k)) =>
                    "body" \notin unfenced ]_vars


\* ---------------------------------------------------- buffer ownership
\* The two memory-to-memory ping-pong runs and the continuous stream over
\* buffers A and B.
InitOwn == InitPP \/ InitCont

NextOwn == NextPP \/ NextCont

SpecOwn == InitOwn /\ [][NextOwn]_vars

\* Descriptors the CPU has handed to the hardware and not got back: the CPU
\* set the destination-ready bit and the hardware has not yet transferred, or
\* the hardware has raised the completion and no wait has consumed it.
HwOwnedCount ==
    Cardinality({k \in DescIdx :
                    Cfg(descConfig, k)
                        \cap {MEM_FLAG_DEST_RDY, DESC_CONFIG_DATA_READY_MASK} # {}})
        + (raised - Len(observed))

\* C22 (as stated): during a ping-pong run at most one ring descriptor is
\* hardware-owned in every reachable state.
C22_OneOwned == HwOwnedCount <= 1

\* C22: during run_mem_to_mem_ping_pong and rh_dma_run_m2m_ping_pong_test at
\* most one ring descriptor is hardware-owned in every reachable state; the
\* continuous stream hands both its descriptors to the hardware when it
\* configures them, so there up to two are hardware-owned.
C22_OneOwnedInM2M ==
    /\ (routine \in {"pp_uio", "pp_rh"}) => HwOwnedCount <= 1
    /\ (routine = "cont") => HwOwnedCount <= 2

\* The UIO loop has consumed the completion of one slot and re-armed its
\* successor: that successor is the one hardware-owned descriptor.
C22_Witness ==
    /\ routine = "pp_uio"
    /\ numBuffers >= 2
    /\ pc = "clear"
    /\ Len(observed) >= 2
    /\ MEM_FLAG_DEST_RDY \in Cfg(descConfig, NextDescToArm(completed_desc))
    /\ HwOwnedCount = 1


\* ------------------------------------------------------ data integrity
\* C23: when the ping-pong run has consumed all requested completions and
\* called the stop routine, every destination buffer i (0 <= i < N) holds the
\* contents of source buffer i when verification reads it, the hardware
\* copying source to destination in one step per descriptor.
C23_AllBuffersCopied ==
    (routine \in {"pp_uio", "pp_rh"} /\ pc = "done") =>
        \A k \in 0 .. (numBuffers - 1) : k \in destFilled


\* ------------------------------------------------- completions left over
\* C24: a completion left over from the previous run, also one the hardware
\* raises after the stop routine has cleared the VALID bits, is never consumed
\* by a wait of the next run: once the run has reset the interrupts, its first
\* wait returns only when the hardware has completed a descriptor armed in
\* this run.
C24_FirstWaitIsOwnCompletion ==
    (routine \in {"pp_uio", "pp_rh"} /\ Len(observed) >= 1) => raised >= 1


\* ------------------------------------------------- dma_reset_interrupts
\* Driver library: INTR_0_MASK_REG = 0; memory_barrier()
Rst_Mask ==
    /\ routine = "reset_rh"
    /\ pc = "ri_mask"
    /\ maskReg' = {}
    /\ pc' = "ri_clear"
    /\ UNCHANGED << routine, numBuffers, num_transfers, i, j, descConfig,
                    descNext, bodyWritten, streamAddr, startReg, status,
                    ctrlConfig, hwRunning, hwCur, uioPending, uioEnabled, st,
                    completed_desc, observed, raised, streamDesc, srcStarted,
                    outcome, runs, stopCalls, afterFirst, resetPulses,
                    beforeStop, lateIrq, streamRunning, moreVars >>

\* INTR_0_CLEAR_REG = FDMA_IRQ_CLEAR_ALL; memory_barrier()
Rst_Clear ==
    /\ routine = "reset_rh"
    /\ pc = "ri_clear"
    /\ status' = ClearedStatus(status, FDMA_IRQ_CLEAR_ALL)
    /\ pc' = "done"
    /\ UNCHANGED << routine, numBuffers, num_transfers, i, j, descConfig,
                    descNext, bodyWritten, streamAddr, startReg, maskReg,
                    ctrlConfig, hwRunning, hwCur, uioPending, uioEnabled, st,
                    completed_desc, observed, raised, streamDesc, srcStarted,
                    outcome, runs, stopCalls, afterFirst, resetPulses,
                    beforeStop, lateIrq, streamRunning, moreVars >>

\* Firmware: INTR_0_MASK_REG = 0
Rst_FwMask ==
    /\ routine = "reset_fw"
    /\ pc = "ri_mask"
    /\ maskReg' = {}
    /\ pc' = "ri_clear"
    /\ UNCHANGED << routine, numBuffers, num_transfers, i, j, descConfig,
                    descNext, bodyWritten, streamAddr, startReg, status,
                    ctrlConfig, hwRunning, hwCur, uioPending, uioEnabled, st,
                    completed_desc, observed, raised, streamDesc, srcStarted,
                    outcome, runs, stopCalls, afterFirst, resetPulses,
                    beforeStop, lateIrq, streamRunning, moreVars >>

\* INTR_0_STAT_REG = 0xFFFFFFFF; __sync_synchronize()
Rst_FwClear ==
    /\ routine = "reset_fw"
    /\ pc = "ri_clear"
    /\ status' = ClearedStatus(status, AllStatusFlags)
    /\ pc' = "ri_read"
    /\ UNCHANGED << routine, numBuffers, num_transfers, i, j, descConfig,
                    descNext, bodyWritten, streamAddr, startReg, maskReg,
                    ctrlConfig, hwRunning, hwCur, uioPending, uioEnabled, st,
                    completed_desc, observed, raised, streamDesc, srcStarted,
                    outcome, runs, stopCalls, afterFirst, resetPulses,
                    beforeStop, lateIrq, streamRunning, moreVars >>

\* lseek and read(uio_fd): the read blocks until an event is counted.
Rst_FwRead ==
    /\ routine = "reset_fw"
    /\ pc = "ri_read"
    /\ uioPending
    /\ uioPending' = FALSE
    /\ uioEnabled' = TRUE
    /\ pc' = "done"
    /\ UNCHANGED << routine, numBuffers, num_transfers, i, j, descConfig,
                    descNext, bodyWritten, streamAddr, startReg, maskReg,
                    status, ctrlConfig, hwRunning, hwCur, st, completed_desc,
                    observed, raised, streamDesc, srcStarted, outcome, runs,
                    stopCalls, afterFirst, resetPulses, beforeStop, lateIrq,
                    streamRunning, moreVars >>

\* The routine is called with any flags pending, any mask, and the UIO handle
\* in any state; the controller is idle during the call.
InitReset ==
    /\ routine \in {"reset_rh", "reset_fw"}
    /\ pc = "ri_mask"
    /\ numBuffers = 1
    /\ num_transfers = 1
    /\ i = 0
    /\ j = 0
    /\ descConfig = [k \in {} |-> {}]
    /\ descNext = [k \in {} |-> 0]
    /\ bodyWritten = {}
    /\ streamAddr = [k \in StreamIdx |-> 0]
    /\ startReg = {}
    /\ maskReg \in {{}, {"OPS_COMPLETE"}, FDMA_IRQ_MASK_ALL,
                    {FDMA_IRQ_MASK_STREAM_DONE(0)}}
    /\ status \in {[flags |-> F, idx |-> n] :
                      F \in SUBSET (IF routine = "reset_rh"
                                    THEN FDMA_IRQ_MASK_ALL
                                    ELSE AllStatusFlags),
                      n \in {0, 1}}
    /\ ctrlConfig = 0
    /\ hwRunning = FALSE
    /\ hwCur = 0
    /\ uioPending \in BOOLEAN
    /\ uioEnabled \in BOOLEAN
    /\ st = NoStatus
    /\ completed_desc = 0
    /\ observed = << >>
    /\ raised = 0
    /\ streamDesc = {}
    /\ srcStarted = FALSE
    /\ outcome = "none"
    /\ runs = 0
    /\ stopCalls = 0
    /\ afterFirst = << >>
    /\ resetPulses = 0
    /\ beforeStop = << >>
    /\ lateIrq = FALSE
    /\ streamRunning = FALSE
    /\ inflight = -1
    /\ st1 = NoStatus
    /\ streamChain = [k \in {} |-> {}]
    /\ irqsRead = 0
    /\ dma_id = 0
    /\ descriptor_id = 0
    /\ g_dma_completed_buffer_flag = 0
    /\ irqLine = FALSE
    /\ lastFilled = -1
    /\ buffer_size = 4096
    /\ descCount = [k \in {} |-> 0]
    /\ channel_num = 0
    /\ streamWords = [k \in {} |-> << >>]
    /\ unfenced = {}
    /\ destFilled = {}
    /\ beforeReset = status.flags
    /\ access = {}
    /\ handlerCalls = 0
    /\ passes = 0
    /\ testedAt = 0
    /\ mem_fd = -1
    /\ dma_regs = 0
    /\ lastCall = [fn |-> "none", sys |-> << >>, ret |-> 0]
    /\ apiCalls = 0

NextReset ==
    \/ Rst_Mask \/ Rst_Clear \/ Rst_FwMask \/ Rst_FwClear \/ Rst_FwRead
    \/ KernelIrq

SpecReset == InitReset /\ [][NextReset]_vars

\* C25: after dma_reset_interrupts returns, the interrupt mask register is 0
\* and no interrupt status bit is pending, whatever bits were pending before
\* the call, and the mask is written to 0 before the pending bits are cleared.
C25_ResetLeavesNothingPending ==
    /\ [](pc = "done" => (maskReg = {} /\ status.flags = {}))
    /\ [][status'.flags # status.flags => maskReg = {}]_vars

\* The routine has returned; every flag was pending when it was called.
C25_Witness ==
    /\ routine = "reset_rh"
    /\ pc = "done"
    /\ beforeReset = FDMA_IRQ_MASK_ALL
    /\ status.flags = {}
    /\ maskReg = {}

\* ------------------------------------------------- draining the ping-pong
ReadyBits == {MEM_FLAG_SRC_RDY, MEM_FLAG_DEST_RDY}

\* The loop has returned from its last wait and force stop has not yet run.
FinalCycle ==
    /\ routine \in {"pp_uio", "pp_rh"}
    /\ Len(observed) = num_transfers
    /\ pc \in {"lastchain", "clear", "enable", "stop"}

\* C26: on the final requested cycle the loop clears CHAIN on the completed
\* descriptor and sets no ready bit on any descriptor; from the final
\* interrupt to the stop routine the controller starts no transfer and raises
\* no completion, so that it has performed exactly num_transfers transfers.
C26_FinalCycleDrains ==
    /\ [][ (routine \in {"pp_uio", "pp_rh"} /\ pc = "lastchain" /\ pc' # pc) =>
             /\ MEM_FLAG_CHAIN \notin Cfg(descConfig', completed_desc)
             /\ \A k \in DescIdx :
                   (Cfg(descConfig', k) \cap ReadyBits)
                       \subseteq (Cfg(descConfig, k) \cap ReadyBits) ]_vars
    /\ [][ FinalCycle => (raised' = raised /\ destFilled' = destFilled) ]_vars
    /\ [](FinalCycle => (raised = num_transfers
                           /\ ~(hwRunning /\ HwReady(descConfig, hwCur))))

C26_Witness ==
    /\ routine = "pp_uio"
    /\ pc = "stop"
    /\ numBuffers >= 2
    /\ num_transfers >= 2
    /\ Len(observed) = num_transfers
    /\ raised = num_transfers
    /\ MEM_FLAG_CHAIN \notin Cfg(descConfig, completed_desc)
    /\ MEM_FLAG_CHAIN \in Cfg(descConfig, NextDescToArm(completed_desc))

\* ------------------------------------------------------- the closed ring
\* The configuration of the ring has been written: the ping-pong routines are
\* past their configuration loop, dma_configure_continuous_stream has
\* returned after writing both descriptors.
RingConfigured ==
    \/ /\ routine \in {"pp_uio", "pp_rh"}
       /\ pc \notin {"reset", "cfg_body", "cfg_conf"}
    \/ /\ routine = "cont"
       /\ pc \in {"k_start", "k_loop", "k_clear", "k_report"}
       /\ dma_id < MAX_DMA_CONTROLLERS

\* The slots the controller visits in n steps along NEXT_DESC from slot k.
RECURSIVE RingWalk(_, _, _)
RingWalk(d, k, n) ==
    IF n = 0 THEN << >> ELSE << k >> \o RingWalk(d, Nxt(d, k), n - 1)

\* C27: after ring configuration NEXT_DESC of slot i is (i + 1) mod N for
\* every slot of the ring, and the walk along NEXT_DESC from slot 0 visits
\* each of the N slots exactly once and then returns to slot 0.
C27_NextPointersFormCycle ==
    RingConfigured =>
        /\ \A k \in 0 .. (numBuffers - 1) :
              Nxt(descNext, k) = (k + 1) % numBuffers
        /\ LET w == RingWalk(descNext, 0, numBuffers)
           IN  /\ {w[x] : x \in 1 .. numBuffers} = 0 .. (numBuffers - 1)
               /\ \A x, y \in 1 .. numBuffers : w[x] = w[y] => x = y
               /\ Nxt(descNext, w[numBuffers]) = 0

C27_Witness ==
    /\ routine = "pp_rh"
    /\ pc = "mask"
    /\ numBuffers = 3
    /\ RingWalk(descNext, 0, numBuffers + 1) = << 0, 1, 2, 0 >>

\* ------------------------------------------------- the ring at the start
DestReadySlots == {k \in DescIdx : MEM_FLAG_DEST_RDY \in Cfg(descConfig, k)}

\* C28: at the moment the ping-pong run writes START_OPERATION_REG, every
\* descriptor of the ring has VALID set and slot 0 is the only descriptor
\* with DEST_DATA_READY set.
C28_ArmedAtStart ==
    [][ (routine \in {"pp_uio", "pp_rh"} /\ StartsMem) =>
          /\ \A k \in 0 .. (numBuffers - 1) :
                MEM_FLAG_VALID \in Cfg(descConfig, k)
          /\ DestReadySlots = {0} ]_vars

C28_Witness ==
    /\ routine \in {"pp_uio", "pp_rh"}
    /\ pc = "wait"
    /\ startReg = {0}
    /\ numBuffers = 3
    /\ i = 0
    /\ raised = 0
    /\ \A k \in 0 .. 2 : MEM_FLAG_VALID \in Cfg(descConfig, k)
    /\ DestReadySlots = {0}

\* ------------------------------------------ run_chained_throughput_test
\* FDMA_IRQ_MASK and FDMA_IRQ_CLEAR of the chained test: bit 0 alone.
\* (faulty variant: the mask register is written with no enable bit)
FDMA_IRQ_MASK_NONE == {}
FDMA_IRQ_MASK == {"OPS_COMPLETE"}
FDMA_IRQ_CLEAR == {"OPS_COMPLETE"}

\* BASE_CONF: both address operations incrementing, SRC_RDY and DEST_RDY.
BASE_CONF == {"SRC_INCR", "DEST_INCR", MEM_FLAG_SRC_RDY, MEM_FLAG_DEST_RDY}

\* temp_config of descriptor n: FLAG_CHAIN on all but the last descriptor,
\* FLAG_IRQ_ON_PROCESS on the last one.
\* (faulty variant: FLAG_CHAIN on the last descriptor too)
\* (faulty variant: FLAG_IRQ_ON_PROCESS on every descriptor)
temp_config_irq_all(n) ==
    BASE_CONF \cup {MEM_FLAG_IRQ_ON_PROCESS}
        \cup (IF n < numBuffers - 1 THEN {MEM_FLAG_CHAIN} ELSE {})
temp_config_ring(n) == BASE_CONF \cup {MEM_FLAG_CHAIN}
temp_config(n) ==
    BASE_CONF \cup (IF n < numBuffers - 1 THEN {MEM_FLAG_CHAIN}
                    ELSE {MEM_FLAG_IRQ_ON_PROCESS})

intended_next_desc(n) == IF n < numBuffers - 1 THEN n + 1 ELSE 0
intended_configs(n) == temp_config(n) \cup {MEM_FLAG_VALID}

\* SOURCE_ADDR_REG, DEST_ADDR_REG and BYTE_COUNT_REG of descriptor j.
Chain_Body ==
    /\ routine = "chained"
    /\ pc = "c_body"
    /\ bodyWritten' = bodyWritten \cup {j}
    /\ unfenced' = unfenced \cup {"body"}
    /\ pc' = "c_conf"
    /\ UNCHANGED << routine, numBuffers, num_transfers, i, j, descConfig,
                    descNext, streamAddr, startReg, maskReg, status,
                    ctrlConfig, hwRunning, hwCur, uioPending, uioEnabled, st,
                    completed_desc, observed, raised, streamDesc, srcStarted,
                    outcome, runs, stopCalls, afterFirst, resetPulses,
                    beforeStop, lateIrq, streamRunning, destFilled,
                    beforeReset, streamVars, access, handlerCalls, passes,
                    testedAt, mem_fd, dma_regs, lastCall, apiCalls >>

\* DESCRIPTOR[i].CONFIG_REG = temp_config, without VALID.
Chain_Conf ==
    /\ routine = "chained"
    /\ pc = "c_conf"
    /\ descConfig' = SetConfig(descConfig, j, temp_config(j))
    /\ unfenced' = unfenced \cup {"config"}
    /\ pc' = "c_next"
    /\ UNCHANGED << routine, numBuffers, num_transfers, i, j, descNext,
                    bodyWritten, streamAddr, startReg, maskReg, status,
                    ctrlConfig, hwRunning, hwCur, uioPending, uioEnabled, st,
                    completed_desc, observed, raised, streamDesc, srcStarted,
                    outcome, runs, stopCalls, afterFirst, resetPulses,
                    beforeStop, lateIrq, streamRunning, destFilled,
                    beforeReset, streamVars, access, handlerCalls, passes,
                    testedAt, mem_fd, dma_regs, lastCall, apiCalls >>

\* DESCRIPTOR[i].NEXT_DESC_ADDR_REG = intended_next_desc[i]
Chain_Next ==
    /\ routine = "chained"
    /\ pc = "c_next"
    /\ descNext' = Put(descNext, j, intended_next_desc(j), 0)
    /\ unfenced' = unfenced \cup {"body"}
    /\ j' = IF j + 1 < numBuffers THEN j + 1 ELSE 0
    /\ pc' = IF j + 1 < numBuffers THEN "c_body" ELSE "c_arm"
    /\ UNCHANGED << routine, numBuffers, num_transfers, i, descConfig,
                    bodyWritten, streamAddr, startReg, maskReg, status,
                    ctrlConfig, hwRunning, hwCur, uioPending, uioEnabled, st,
                    completed_desc, observed, raised, streamDesc, srcStarted,
                    outcome, runs, stopCalls, afterFirst, resetPulses,
                    beforeStop, lateIrq, streamRunning, destFilled,
                    beforeReset, streamVars, access, handlerCalls, passes,
                    testedAt, mem_fd, dma_regs, lastCall, apiCalls >>

\* DESCRIPTOR[i].CONFIG_REG |= FLAG_VALID, for every descriptor in turn; the
\* barrier follows the last store.
Chain_Arm ==
    /\ routine = "chained"
    /\ pc = "c_arm"
    /\ descConfig' = OrConfig(descConfig, j, {MEM_FLAG_VALID})
    /\ unfenced' = IF j + 1 < numBuffers THEN unfenced \cup {"config"} ELSE {}
    /\ j' = j + 1
    /\ pc' = IF j + 1 < numBuffers THEN "c_arm" ELSE "c_mask"
    /\ UNCHANGED << routine, numBuffers, num_transfers, i, descNext,
                    bodyWritten, streamAddr, startReg, maskReg, status,
                    ctrlConfig, hwRunning, hwCur, uioPending, uioEnabled, st,
                    completed_desc, observed, raised, streamDesc, srcStarted,
                    outcome, runs, stopCalls, afterFirst, resetPulses,
                    beforeStop, lateIrq, streamRunning, destFilled,
                    beforeReset, streamVars, access, handlerCalls, passes,
                    testedAt, mem_fd, dma_regs, lastCall, apiCalls >>

\* INTERRUPT[0].MASK_REG = FDMA_IRQ_MASK
Chain_Mask ==
    /\ routine = "chained"
    /\ pc = "c_mask"
    /\ maskReg' = FDMA_IRQ_MASK
    /\ pc' = "c_verify"
    /\ UNCHANGED << routine, numBuffers, num_transfers, i, j, descConfig,
                    descNext, bodyWritten, streamAddr, startReg, status,
                    ctrlConfig, hwRunning, hwCur, uioPending, uioEnabled, st,
                    completed_desc, observed, raised, streamDesc, srcStarted,
                    outcome, runs, stopCalls, afterFirst, resetPulses,
                    beforeStop, lateIrq, streamRunning, moreVars >>

\* The read-back of CONFIG_REG and NEXT_DESC_ADDR_REG of every descriptor
\* against the intended values; a mismatch aborts the test.
\* (faulty variant: the read-back is not compared)
config_ok_unchecked == TRUE
config_ok ==
    \A k \in 0 .. (numBuffers - 1) :
        /\ Cfg(descConfig, k) = intended_configs(k)
        /\ Nxt(descNext, k) = intended_next_desc(k)

Chain_Verify ==
    /\ routine = "chained"
    /\ pc = "c_verify"
    /\ pc' = IF config_ok THEN "c_start" ELSE "done"
    /\ outcome' = IF config_ok THEN outcome ELSE "error"
    /\ UNCHANGED << routine, numBuffers, num_transfers, i, j, descConfig,
                    descNext, bodyWritten, streamAddr, startReg, maskReg,
                    status, ctrlConfig, hwRunning, hwCur, uioPending,
                    uioEnabled, st, completed_desc, observed, raised,
                    streamDesc, srcStarted, runs, stopCalls, afterFirst,
                    resetPulses, beforeStop, lateIrq, streamRunning,
                    moreVars >>

\* START_OPERATION_REG = FDMA_START: channel 0 starts at descriptor 0.
Chain_Start ==
    /\ routine = "chained"
    /\ pc = "c_start"
    /\ startReg' = {0}
    /\ hwRunning' = TRUE
    /\ hwCur' = 0
    /\ pc' = "c_wait"
    /\ UNCHANGED << routine, numBuffers, num_transfers, i, j, descConfig,
                    descNext, bodyWritten, streamAddr, maskReg, status,
                    ctrlConfig, uioPending, uioEnabled, st, completed_desc,
                    observed, raised, streamDesc, srcStarted, outcome, runs,
                    stopCalls, afterFirst, resetPulses, beforeStop, lateIrq,
                    streamRunning, moreVars >>

\* read(dma_uio_fd) blocks until the final interrupt is counted.
Chain_Wait ==
    /\ routine = "chained"
    /\ pc = "c_wait"
    /\ uioPending
    /\ uioPending' = FALSE
    /\ pc' = "c_clear"
    /\ UNCHANGED << routine, numBuffers, num_transfers, i, j, descConfig,
                    descNext, bodyWritten, streamAddr, startReg, maskReg,
                    status, ctrlConfig, hwRunning, hwCur, uioEnabled, st,
                    completed_desc, observed, raised, streamDesc, srcStarted,
                    outcome, runs, stopCalls, afterFirst, resetPulses,
                    beforeStop, lateIrq, streamRunning, moreVars >>

\* INTERRUPT[0].CLEAR_REG = FDMA_IRQ_CLEAR
Chain_Clear ==
    /\ routine = "chained"
    /\ pc = "c_clear"
    /\ status' = ClearedStatus(status, FDMA_IRQ_CLEAR)
    /\ pc' = "done"
    /\ UNCHANGED << routine, numBuffers, num_transfers, i, j, descConfig,
                    descNext, bodyWritten, streamAddr, startReg, maskReg,
                    ctrlConfig, hwRunning, hwCur, uioPending, uioEnabled, st,
                    completed_desc, observed, raised, streamDesc, srcStarted,
                    outcome, runs, stopCalls, afterFirst, resetPulses,
                    beforeStop, lateIrq, streamRunning, moreVars >>

Chain_Cpu ==
    \/ Chain_Body \/ Chain_Conf \/ Chain_Next \/ Chain_Arm \/ Chain_Mask
    \/ Chain_Verify \/ Chain_Start \/ Chain_Wait \/ Chain_Clear

InitChain ==
    /\ routine = "chained"
    /\ numBuffers \in 1 .. MaxRing
    /\ num_transfers = 1
    /\ pc = "c_body"
    /\ i = 0
    /\ j = 0
    /\ st = NoStatus
    /\ completed_desc = 0
    /\ observed = << >>
    /\ InitRegs

\* The internal-descriptor chains the programs build: the two ping-pong rings
\* and the linear chain of the throughput test.
InitChains == InitPP \/ InitChain

NextChains == NextPP \/ Chain_Cpu

SpecChains == InitChains /\ [][NextChains]_vars

\* The descriptors are configured and START_OPERATION_REG is not yet written.
ChainConfigured ==
    \/ routine \in {"pp_uio", "pp_rh"} /\ pc \in {"mask", "arm0", "start"}
    \/ routine = "chained" /\ pc \in {"c_arm", "c_mask", "c_verify", "c_start"}

ChainSlots == {k \in 0 .. (numBuffers - 1) : MEM_FLAG_CHAIN \in Cfg(descConfig, k)}

\* C29 as stated: after configuration of an N-descriptor internal chain and
\* before start, CHAIN is set on descriptors 0..N-2 and clear on descriptor
\* N-1.
C29_ChainClearOnLast ==
    ChainConfigured => ChainSlots = 0 .. (numBuffers - 2)

\* C29: after configuration and before start, the linear chain of the
\* throughput test has CHAIN set on descriptors 0..N-2 and clear on
\* descriptor N-1, while the ping-pong ring has CHAIN set on all N
\* descriptors.
C29_ChainPerTopology ==
    ChainConfigured =>
        ChainSlots = IF routine = "chained" THEN 0 .. (numBuffers - 2)
                     ELSE 0 .. (numBuffers - 1)

C29_Witness ==
    /\ routine = "chained"
    /\ pc = "c_start"
    /\ numBuffers = 3
    /\ ChainSlots = {0, 1}
    /\ MEM_FLAG_VALID \in Cfg(descConfig, 2)

\* ------------------------------------------------------ the re-arm step
\* C30: the re-arm step after a completion of slot k ORs SRC_RDY and DEST_RDY
\* into the CONFIG of slot (k + 1) mod N, and changes no other bit of that
\* CONFIG and no field of any other descriptor, slot k included.
C30_RearmTouchesNextSlotOnly ==
    [][ (/\ routine \in {"pp_uio", "pp_rh"}
         /\ pc \in {"rearm", "rearm_src", "rearm_dst"}
         /\ pc' # pc) =>
          LET n == (completed_desc + 1) % numBuffers
          IN  /\ \A k \in DescIdx \ {n} :
                    Cfg(descConfig', k) = Cfg(descConfig, k)
              /\ Cfg(descConfig, n) \subseteq Cfg(descConfig', n)
              /\ (Cfg(descConfig', n) \ Cfg(descConfig, n)) \subseteq ReadyBits
              /\ pc' = "clear" => ReadyBits \subseteq Cfg(descConfig', n)
              /\ descNext' = descNext
              /\ bodyWritten' = bodyWritten ]_vars

\* ------------------------------------------------ layout of the DMA buffer
MaxLayoutBuffers == 4

\* Values of BUFFER_SIZE the layout is computed for.
BufferSizes == {1024, 4096, 65536, 1048576}

PING_PONG_SRC_OFFSET == 0

\* PING_PONG_SRC_OFFSET + (NUM_BUFFERS * BUFFER_SIZE)
\* (faulty variant: one buffer's worth of room for the source region)
PING_PONG_DEST_OFFSET_ONE(n, b) == PING_PONG_SRC_OFFSET + b
PING_PONG_DEST_OFFSET(n, b) == PING_PONG_SRC_OFFSET + (n * b)

\* STREAM_DEST_OFFSET and STREAM_DESCRIPTOR_OFFSET as functions of
\* NUM_BUFFERS and BUFFER_SIZE.
StreamDestOffset(n, b) == PING_PONG_DEST_OFFSET(n, b) + (n * b)
StreamDescriptorOffset(n, b) == StreamDestOffset(n, b) + (n * b)

\* sizeof(DmaStreamDescriptor_t): three 32-bit words.
SizeofStreamDescriptor == 12

\* dma_buffer_size = STREAM_DESCRIPTOR_OFFSET + NUM_BUFFERS * sizeof(...)
dma_buffer_size(n, b) == StreamDescriptorOffset(n, b) + (n * SizeofStreamDescriptor)

\* The firmware's layout: one four-word descriptor at offset 0, the
\* destination buffer behind it.
FwStreamDescriptorOffset == 0
FwSizeofStreamDescriptor == 16
DMA_BUFFER_SIZE == FwStreamDestOffset + 8192

Range(name, lo, len) == [region |-> name, lo |-> lo, hi |-> lo + len]

\* The regions of the buffer, as half-open byte ranges.
LayoutRegions ==
    IF routine = "lay_fw"
    THEN {Range("desc", FwStreamDescriptorOffset,
                FwStreamDestOffset - FwStreamDescriptorOffset),
          Range("sdest", FwStreamDestOffset, DMA_BUFFER_SIZE - FwStreamDestOffset)}
    ELSE {Range("src", PING_PONG_SRC_OFFSET, numBuffers * buffer_size),
          Range("dest", PING_PONG_DEST_OFFSET(numBuffers, buffer_size),
                numBuffers * buffer_size),
          Range("sdest", StreamDestOffset(numBuffers, buffer_size),
                numBuffers * buffer_size),
          Range("desc", StreamDescriptorOffset(numBuffers, buffer_size),
                numBuffers * SizeofStreamDescriptor)}

MappedSize ==
    IF routine = "lay_fw" THEN DMA_BUFFER_SIZE
    ELSE dma_buffer_size(numBuffers, buffer_size)

\* run_mem_to_mem_ping_pong: source and destination buffer of descriptor i.
Lay_PingPong ==
    /\ routine = "lay_pp"
    /\ i < numBuffers
    /\ access' = {Range("src", PING_PONG_SRC_OFFSET + (i * buffer_size), buffer_size),
                  Range("dest", PING_PONG_DEST_OFFSET(numBuffers, buffer_size)
                                  + (i * buffer_size), buffer_size)}
    /\ i' = i + 1
    /\ UNCHANGED << routine, pc, numBuffers, num_transfers, j, descConfig,
                    descNext, bodyWritten, streamAddr, startReg, maskReg,
                    status, ctrlConfig, hwRunning, hwCur, uioPending,
                    uioEnabled, st, completed_desc, observed, raised,
                    streamDesc, srcStarted, outcome, runs, stopCalls,
                    afterFirst, resetPulses, beforeStop, lateIrq,
                    streamRunning, unfenced, destFilled, beforeReset,
                    streamVars, handlerCalls, passes, testedAt, mem_fd,
                    dma_regs, lastCall, apiCalls >>

\* run_stream_to_mem_test: stream descriptor i and its destination buffer.
Lay_Stream ==
    /\ routine = "lay_stream"
    /\ i < numBuffers
    /\ access' = {Range("desc", StreamDescriptorOffset(numBuffers, buffer_size)
                                  + (i * SizeofStreamDescriptor),
                        SizeofStreamDescriptor),
                  Range("sdest", StreamDestOffset(numBuffers, buffer_size)
                                   + (i * buffer_size), buffer_size)}
    /\ i' = i + 1
    /\ UNCHANGED << routine, pc, numBuffers, num_transfers, j, descConfig,
                    descNext, bodyWritten, streamAddr, startReg, maskReg,
                    status, ctrlConfig, hwRunning, hwCur, uioPending,
                    uioEnabled, st, completed_desc, observed, raised,
                    streamDesc, srcStarted, outcome, runs, stopCalls,
                    afterFirst, resetPulses, beforeStop, lateIrq,
                    streamRunning, unfenced, destFilled, beforeReset,
                    streamVars, handlerCalls, passes, testedAt, mem_fd,
                    dma_regs, lastCall, apiCalls >>

\* run_control_path_validation_test: the first stream descriptor, and 1024
\* bytes at the start of the stream destination region.
Lay_Ctrl ==
    /\ routine = "lay_ctrl"
    /\ i = 0
    /\ access' = {Range("desc", StreamDescriptorOffset(numBuffers, buffer_size),
                        SizeofStreamDescriptor),
                  Range("sdest", StreamDestOffset(numBuffers, buffer_size), 1024)}
    /\ i' = 1
    /\ UNCHANGED << routine, pc, numBuffers, num_transfers, j, descConfig,
                    descNext, bodyWritten, streamAddr, startReg, maskReg,
                    status, ctrlConfig, hwRunning, hwCur, uioPending,
                    uioEnabled, st, completed_desc, observed, raised,
                    streamDesc, srcStarted, outcome, runs, stopCalls,
                    afterFirst, resetPulses, beforeStop, lateIrq,
                    streamRunning, unfenced, destFilled, beforeReset,
                    streamVars, handlerCalls, passes, testedAt, mem_fd,
                    dma_regs, lastCall, apiCalls >>

\* run_axi_stream_source_test: the descriptor and test_size bytes of the
\* destination buffer.
Lay_Fw ==
    /\ routine = "lay_fw"
    /\ i = 0
    /\ access' = {Range("desc", FwStreamDescriptorOffset, FwSizeofStreamDescriptor),
                  Range("sdest", FwStreamDestOffset, test_size)}
    /\ i' = 1
    /\ UNCHANGED << routine, pc, numBuffers, num_transfers, j, descConfig,
                    descNext, bodyWritten, streamAddr, startReg, maskReg,
                    status, ctrlConfig, hwRunning, hwCur, uioPending,
                    uioEnabled, st, completed_desc, observed, raised,
                    streamDesc, srcStarted, outcome, runs, stopCalls,
                    afterFirst, resetPulses, beforeStop, lateIrq,
                    streamRunning, unfenced, destFilled, beforeReset,
                    streamVars, handlerCalls, passes, testedAt, mem_fd,
                    dma_regs, lastCall, apiCalls >>

InitLayout ==
    /\ \/ /\ routine \in {"lay_pp", "lay_stream", "lay_ctrl"}
          /\ numBuffers \in 1 .. MaxLayoutBuffers
          /\ buffer_size \in BufferSizes
       \/ /\ routine = "lay_fw"
          /\ numBuffers = 1
          /\ buffer_size = test_size
    /\ num_transfers = 1
    /\ pc = "layout"
    /\ i = 0
    /\ j = 0
    /\ st = NoStatus
    /\ completed_desc = 0
    /\ observed = << >>
    /\ descConfig = [k \in {} |-> {}]
    /\ descNext = [k \in {} |-> 0]
    /\ bodyWritten = {}
    /\ streamAddr = [k \in StreamIdx |-> 0]
    /\ startReg = {}
    /\ maskReg = {}
    /\ status = NoStatus
    /\ ctrlConfig = 0
    /\ hwRunning = FALSE
    /\ hwCur = 0
    /\ uioPending = FALSE
    /\ uioEnabled = TRUE
    /\ raised = 0
    /\ streamDesc = {}
    /\ srcStarted = FALSE
    /\ outcome = "none"
    /\ runs = 0
    /\ stopCalls = 0
    /\ afterFirst = << >>
    /\ resetPulses = 0
    /\ beforeStop = << >>
    /\ lateIrq = FALSE
    /\ streamRunning = FALSE
    /\ inflight = -1
    /\ st1 = NoStatus
    /\ streamChain = [k \in {} |-> {}]
    /\ irqsRead = 0
    /\ dma_id = 0
    /\ descriptor_id = 0
    /\ g_dma_completed_buffer_flag = 0
    /\ irqLine = FALSE
    /\ lastFilled = -1
    /\ descCount = [k \in {} |-> 0]
    /\ channel_num = 0
    /\ streamWords = [k \in {} |-> << >>]
    /\ unfenced = {}
    /\ destFilled = {}
    /\ beforeReset = {}
    /\ access = {}
    /\ handlerCalls = 0
    /\ passes = 0
    /\ testedAt = 0
    /\ mem_fd = -1
    /\ dma_regs = 0
    /\ lastCall = [fn |-> "none", sys |-> << >>, ret |-> 0]
    /\ apiCalls = 0

NextLayout == Lay_PingPong \/ Lay_Stream \/ Lay_Ctrl \/ Lay_Fw

SpecLayout == InitLayout /\ [][NextLayout]_vars

Disjoint(a, b) == a.hi <= b.lo \/ b.hi <= a.lo

\* C31: the source, destination, stream-destination and stream-descriptor
\* regions are pairwise disjoint, and every buffer of BUFFER_SIZE bytes and
\* every descriptor the tests address lies inside its region and inside the
\* mapped DMA buffer of dma_buffer_size bytes.
C31_LayoutDisjointAndMapped ==
    routine \in {"lay_pp", "lay_stream", "lay_ctrl", "lay_fw"} =>
        /\ \A a, b \in LayoutRegions : a.region # b.region => Disjoint(a, b)
        /\ \A a \in LayoutRegions : 0 <= a.lo /\ a.lo < a.hi /\ a.hi <= MappedSize
        /\ \A a \in access :
              /\ 0 <= a.lo /\ a.hi <= MappedSize
              /\ \E r \in LayoutRegions :
                    r.region = a.region /\ r.lo <= a.lo /\ a.hi <= r.hi

C31_Witness ==
    /\ routine = "lay_stream"
    /\ numBuffers = 4
    /\ buffer_size = 1048576
    /\ i = 4
    /\ StreamDestOffset(numBuffers, buffer_size) = STREAM_DEST_OFFSET
    /\ \E a \in access : a.region = "desc" /\ a.hi = MappedSize
    /\ \E a \in access : a.region = "sdest" /\ a.hi = MappedSize - 48

\* ---------------------------------------------------------------- dma_init
\* dma_force_stop(dma): CONFIG_REG of the 32 descriptors and the 4 stream
\* address registers zeroed, then the barrier.
Init_Stop ==
    /\ routine = "dma_init"
    /\ pc = "di_stop"
    /\ beforeStop' = StopRegs
    /\ descConfig' = StoppedDesc(descConfig)
    /\ streamAddr' = StoppedStream
    /\ pc' = "di_mask"
    /\ UNCHANGED << routine, numBuffers, num_transfers, i, j, descNext,
                    bodyWritten, startReg, maskReg, status, ctrlConfig,
                    hwRunning, hwCur, uioPending, uioEnabled, st,
                    completed_desc, observed, raised, streamDesc, srcStarted,
                    outcome, runs, stopCalls, afterFirst, resetPulses,
                    lateIrq, streamRunning, moreVars >>

\* dma_reset_interrupts(dma): INTR_0_MASK_REG = 0; memory_barrier()
Init_Mask ==
    /\ routine = "dma_init"
    /\ pc = "di_mask"
    /\ maskReg' = {}
    /\ pc' = "di_clear"
    /\ UNCHANGED << routine, numBuffers, num_transfers, i, j, descConfig,
                    descNext, bodyWritten, streamAddr, startReg, status,
                    ctrlConfig, hwRunning, hwCur, uioPending, uioEnabled, st,
                    completed_desc, observed, raised, streamDesc, srcStarted,
                    outcome, runs, stopCalls, afterFirst, resetPulses,
                    beforeStop, lateIrq, streamRunning, moreVars >>

\* INTR_0_CLEAR_REG = FDMA_IRQ_CLEAR_ALL; memory_barrier()
Init_Clear ==
    /\ routine = "dma_init"
    /\ pc = "di_clear"
    /\ status' = ClearedStatus(status, FDMA_IRQ_CLEAR_ALL)
    /\ pc' = "done"
    /\ UNCHANGED << routine, numBuffers, num_transfers, i, j, descConfig,
                    descNext, bodyWritten, streamAddr, startReg, maskReg,
                    ctrlConfig, hwRunning, hwCur, uioPending, uioEnabled, st,
                    completed_desc, observed, raised, streamDesc, srcStarted,
                    outcome, runs, stopCalls, afterFirst, resetPulses,
                    beforeStop, lateIrq, streamRunning, moreVars >>

\* dma_init is called from any register state, with the controller idle or
\* in the middle of a chain.
InitDmaInit ==
    /\ routine = "dma_init"
    /\ pc = "di_stop"
    /\ numBuffers = 1
    /\ num_transfers = 1
    /\ i = 0
    /\ j = 0
    /\ descConfig \in UNION {[S -> {{MEM_FLAG_VALID},
                                    {MEM_FLAG_SRC_RDY},
                                    UioConfigWord \cup {MEM_FLAG_DEST_RDY}}] :
                             S \in SUBSET {0, 15, NumDescriptors - 1}}
    /\ descNext = [k \in {} |-> 0]
    /\ bodyWritten = {}
    /\ streamAddr \in {[k \in StreamIdx |-> IF k \in S THEN 1 ELSE 0] :
                       S \in {{}, {0}, {NumStreamRegs - 1}, StreamIdx}}
    /\ startReg = {}
    /\ maskReg \in {{}, {"OPS_COMPLETE"}, FDMA_IRQ_MASK_ALL}
    /\ status = NoStatus
    /\ ctrlConfig = 0
    /\ hwRunning \in BOOLEAN
    /\ hwCur \in {0, 15}
    /\ uioPending = FALSE
    /\ uioEnabled = TRUE
    /\ st = NoStatus
    /\ completed_desc = 0
    /\ observed = << >>
    /\ raised = 0
    /\ streamDesc = {}
    /\ srcStarted = FALSE
    /\ outcome = "none"
    /\ runs = 0
    /\ stopCalls = 0
    /\ afterFirst = << >>
    /\ resetPulses = 0
    /\ beforeStop = << >>
    /\ lateIrq = FALSE
    /\ streamRunning = FALSE
    /\ inflight = -1
    /\ st1 = NoStatus
    /\ streamChain = [k \in {} |-> {}]
    /\ irqsRead = 0
    /\ dma_id = 0
    /\ descriptor_id = 0
    /\ g_dma_completed_buffer_flag = 0
    /\ irqLine = FALSE
    /\ lastFilled = -1
    /\ buffer_size = 4096
    /\ descCount = [k \in {} |-> 0]
    /\ channel_num = 0
    /\ streamWords = [k \in {} |-> << >>]
    /\ unfenced = {}
    /\ destFilled = {}
    /\ beforeReset = {}
    /\ access = {}
    /\ handlerCalls = 0
    /\ passes = 0
    /\ testedAt = 0
    /\ mem_fd = -1
    /\ dma_regs = 0
    /\ lastCall = [fn |-> "none", sys |-> << >>, ret |-> 0]
    /\ apiCalls = 0

NextDmaInit == Init_Stop \/ Init_Mask \/ Init_Clear \/ HwProcess

SpecDmaInit == InitDmaInit /\ [][NextDmaInit]_vars

\* C32: after dma_init returns, the CONFIG word of all 32 descriptors is 0,
\* all 4 stream address registers are 0 and the interrupt mask register is 0,
\* whatever the registers held before; the interrupt mask is written only
\* once the stop step has zeroed the descriptors and stream registers.
C32_InitLeavesControllerIdle ==
    /\ []((routine = "dma_init" /\ pc = "done") =>
            /\ \A k \in DescIdx : Cfg(descConfig, k) = {}
            /\ \A k \in StreamIdx : streamAddr[k] = 0
            /\ maskReg = {})
    /\ [][ (routine = "dma_init" /\ (pc = "di_mask" \/ maskReg' # maskReg)) =>
             /\ \A k \in DescIdx : Cfg(descConfig, k) = {}
             /\ \A k \in StreamIdx : streamAddr[k] = 0 ]_vars

C32_Witness ==
    /\ routine = "dma_init"
    /\ pc = "done"
    /\ beforeStop # << >>
    /\ MEM_FLAG_VALID \in Cfg(beforeStop[1], NumDescriptors - 1)
    /\ beforeStop[2][NumStreamRegs - 1] # 0
    /\ \A k \in DescIdx : Cfg(descConfig, k) = {}
    /\ \A k \in StreamIdx : streamAddr[k] = 0
    /\ maskReg = {}

\* --------------------------------------------- indices of the ping-pong loop
\* The indices into DESCRIPTOR[] that the loop's next store uses.
DescriptorIndexUsed ==
    CASE pc = "rearm" -> {NextDescToArm(completed_desc)}
      [] pc = "rearm_src" -> {completed_desc}
      [] pc = "rearm_dst" -> {NextDescToArm(completed_desc)}
      [] pc = "lastchain" -> {completed_desc}
      [] OTHER -> {}

\* C33: every index the CPU uses to address DESCRIPTOR[] in the ping-pong
\* loop, on re-arm cycles and on the final CHAIN-clearing cycle, is below the
\* ring size N and so below 32, whatever index the status register reported.
C33_LoopIndexInRing ==
    routine \in {"pp_uio", "pp_rh"} =>
        \A k \in DescriptorIndexUsed : k < numBuffers /\ k < NumDescriptors

\* ------------------------------------- dma_reset_interrupts: does it return
Rst_Cpu == Rst_Mask \/ Rst_Clear \/ Rst_FwMask \/ Rst_FwClear \/ Rst_FwRead

\* The CPU runs whenever it can and the kernel delivers every enabled,
\* pending interrupt.
FairSpecReset == SpecReset /\ WF_vars(Rst_Cpu) /\ WF_vars(KernelIrq)

\* C34: the UIO variant of dma_reset_interrupts returns from every state, the
\* state with no interrupt counted since the UIO handle was last read and the
\* mask just set to 0 included; it never blocks its caller.
C34_UioResetReturns ==
    (routine = "reset_fw") ~> (pc = "done")

\* --------------------------------------------- unmask first, then start
\* Every test routine, each from its own starting state.
InitTests == InitWait \/ InitStream \/ InitChain

NextTests == NextWait \/ S2M_Cpu \/ Chain_Cpu

SpecTests == InitTests /\ [][NextTests]_vars

\* The status flags that report the completion of a descriptor.
CompletionFlags == {"OPS_COMPLETE", FDMA_IRQ_MASK_STREAM_DONE(0)}

InitChainBusy ==
    /\ routine = "chained"
    /\ numBuffers \in 1 .. MaxRing
    /\ num_transfers = 1
    /\ pc = "c_body"
    /\ i = 0
    /\ j = 0
    /\ st = NoStatus
    /\ completed_desc = 0
    /\ observed = << >>
    /\ descConfig = [k \in {} |-> {}]
    /\ descNext = [k \in {} |-> 0]
    /\ bodyWritten = {}
    /\ streamAddr = [k \in StreamIdx |-> 0]
    /\ startReg = {}
    /\ maskReg \in {{}, FDMA_IRQ_MASK}
    /\ status = NoStatus
    /\ ctrlConfig = 0
    /\ hwRunning \in BOOLEAN
    /\ hwCur \in 0 .. (numBuffers - 1)
    /\ uioPending = FALSE
    /\ uioEnabled = TRUE
    /\ raised = 0
    /\ streamDesc = {}
    /\ srcStarted = FALSE
    /\ outcome = "none"
    /\ runs = 0
    /\ stopCalls = 0
    /\ afterFirst = << >>
    /\ resetPulses = 0
    /\ beforeStop = << >>
    /\ lateIrq = FALSE
    /\ streamRunning = FALSE
    /\ InitMore

NextChainBusy == Chain_Cpu \/ HwProcess \/ KernelIrq

SpecChainBusy == InitChainBusy /\ [][NextChainBusy]_vars

\* CONFIG_REG or NEXT_DESC_ADDR_REG of a chained descriptor reads back
\* different from the intended value.
ReadBackDiffers ==
    \E k \in 0 .. (numBuffers - 1) :
        \/ Cfg(descConfig, k) # temp_config(k) \cup {MEM_FLAG_VALID}
        \/ Nxt(descNext, k) # intended_next_desc(k)

\* C36: in run_chained_throughput_test, when the read-back CONFIG or
\* NEXT_DESC of any chained descriptor differs from the intended value, the
\* routine returns and START_OPERATION_REG is never written.
C36_MismatchNeverStarts ==
    /\ [][ (/\ routine = "chained"
            /\ pc = "c_verify"
            /\ pc' # pc
            /\ ReadBackDiffers) => (pc' = "done" /\ startReg' = startReg) ]_vars
    /\ []((routine = "chained" /\ outcome = "error") =>
            (pc = "done" /\ startReg = {}))

C36_Witness ==
    /\ routine = "chained"
    /\ pc = "done"
    /\ outcome = "error"
    /\ numBuffers = 3
    /\ ReadBackDiffers
    /\ startReg = {}
    /\ raised >= 1

\* --------------------------------------------- one interrupt for the chain
NUM_CHAINED_DESCS == 4

\* The throughput test with the chain length of the program.
InitChainFull ==
    /\ routine = "chained"
    /\ numBuffers = NUM_CHAINED_DESCS
    /\ num_transfers = 1
    /\ pc = "c_body"
    /\ i = 0
    /\ j = 0
    /\ st = NoStatus
    /\ completed_desc = 0
    /\ observed = << >>
    /\ InitRegs

InitChainRun == InitChains \/ InitChainFull

SpecChainRun == InitChainRun /\ [][NextChains]_vars

\* The blocking read of the throughput test has returned.
ChainReadReturned ==
    routine = "chained" /\ (pc = "c_clear" \/ (pc = "done" /\ outcome # "error"))

\* C37: in run_chained_throughput_test the controller transfers descriptors
\* 0, 1, .., N-1 in that order, raises exactly one interrupt, on the last of
\* them, and the single blocking read returns only after all N descriptors
\* have been transferred.
C37_OneInterruptAfterWholeChain ==
    /\ [][ (routine = "chained" /\ destFilled' # destFilled) =>
             /\ destFilled = 0 .. (hwCur - 1)
             /\ destFilled' = 0 .. hwCur ]_vars
    /\ [][ (routine = "chained" /\ raised' # raised) =>
             /\ raised = 0
             /\ raised' = 1
             /\ destFilled' = 0 .. (numBuffers - 1) ]_vars
    /\ [](ChainReadReturned =>
            (raised = 1 /\ destFilled = 0 .. (numBuffers - 1)))

C37_Witness ==
    /\ ChainReadReturned
    /\ pc = "c_clear"
    /\ numBuffers = 4
    /\ destFilled = {0, 1, 2, 3}
    /\ raised = 1

\* ------------------------------------------- the flag between handler and loop
\* The main loop is inside a buffer-ready pass: it has found the flag set and
\* has not yet finished the report.
InPass == routine = "cont" /\ pc \in {"k_clear", "k_report"}

\* The main loop's load of the flag finds it set.
FlagFoundSet == routine = "cont" /\ pc = "k_loop" /\ pc' = "k_clear"

\* C38: however fabric_f2h_6_plic_IRQHandler interleaves with the load and
\* the store of g_dma_completed_buffer_flag in the loop of u54_1, the passes
\* the loop has finished or is inside never outnumber the handler's
\* invocations, and the loop enters a pass only when the handler has run
\* since the load that opened the pass before.
C38_PassesFollowHandler ==
    /\ [](routine = "cont" =>
             passes + (IF InPass THEN 1 ELSE 0) <= handlerCalls)
    /\ [][FlagFoundSet => handlerCalls > testedAt]_vars

\* The handler ran three times, one of them between the load and the store
\* of a pass, and the loop made two passes.
C38_Witness ==
    /\ routine = "cont"
    /\ pc = "k_loop"
    /\ handlerCalls = 3
    /\ passes = 2
    /\ g_dma_completed_buffer_flag = 0

\* --------------------------------------- DMA_MapRegisters, DMA_UnmapRegisters
\* The maximum number of calls of the mapping interface followed.
MaxApiCalls == 3

NULL == 0

MAP_SIZE == 4096

DMA_CONTROLLER_0_BASE_ADDR == 1610678272

\* What open("/dev/mem") can return: -1, or a descriptor (0 when the process
\* has closed its standard input).
OpenOutcomes == {-1, 0, 3}

\* (void *) -1
MAP_FAILED == -1

\* What mmap can return: MAP_FAILED, or the address of a page.
MmapOutcomes == {MAP_FAILED, MAP_SIZE, 2 * MAP_SIZE}

\* The mutation of MapResult: the descriptor is kept when mmap fails.
MapResultKeepsFd(fd, map_base) ==
    IF fd < 0
    THEN [mem_fd |-> fd, dma_regs |-> NULL, ret |-> 0,
          sys |-> << <<"open", FALSE>> >>]
    ELSE IF map_base = MAP_FAILED
    THEN [mem_fd |-> fd, dma_regs |-> NULL, ret |-> 0,
          sys |-> << <<"open", TRUE>>, <<"mmap", FALSE>>, <<"close", TRUE>> >>]
    ELSE [mem_fd |-> fd,
          dma_regs |-> map_base + (DMA_CONTROLLER_0_BASE_ADDR % MAP_SIZE),
          ret |-> 1,
          sys |-> << <<"open", TRUE>>, <<"mmap", TRUE>> >>]

\* DMA_MapRegisters on an unmapped driver, open returning fd and mmap
\* returning map_base: the two statics, the value returned and the system
\* calls made. (DMA_CONTROLLER_0_BASE_ADDR & MAP_MASK is the remainder by the
\* page size.)
MapResult(fd, map_base) ==
    IF fd < 0
    THEN [mem_fd |-> fd, dma_regs |-> NULL, ret |-> 0,
          sys |-> << <<"open", FALSE>> >>]
    ELSE IF map_base = MAP_FAILED
    THEN [mem_fd |-> -1, dma_regs |-> NULL, ret |-> 0,
          sys |-> << <<"open", TRUE>>, <<"mmap", FALSE>>, <<"close", TRUE>> >>]
    ELSE [mem_fd |-> fd,
          dma_regs |-> map_base + (DMA_CONTROLLER_0_BASE_ADDR % MAP_SIZE),
          ret |-> 1,
          sys |-> << <<"open", TRUE>>, <<"mmap", TRUE>> >>]

\* if (mem_fd != -1) return 1; otherwise open, mmap and the assignment of
\* dma_regs.
DMA_MapRegisters ==
    /\ routine = "map_api"
    /\ pc = "m_idle"
    /\ apiCalls < MaxApiCalls
    /\ apiCalls' = apiCalls + 1
    /\ IF mem_fd # -1
       THEN /\ lastCall' = [fn |-> "DMA_MapRegisters", sys |-> << >>, ret |-> 1]
            /\ UNCHANGED << mem_fd, dma_regs >>
       ELSE \E fd \in OpenOutcomes, map_base \in MmapOutcomes :
              /\ mem_fd' = MapResult(fd, map_base).mem_fd
              /\ dma_regs' = IF fd < 0
                             THEN dma_regs
                             ELSE MapResult(fd, map_base).dma_regs
              /\ lastCall' = [fn |-> "DMA_MapRegisters",
                              sys |-> MapResult(fd, map_base).sys,
                              ret |-> MapResult(fd, map_base).ret]
    /\ UNCHANGED << routine, pc, numBuffers, num_transfers, i, j, descConfig,
                    descNext, bodyWritten, streamAddr, startReg, maskReg,
                    status, ctrlConfig, hwRunning, hwCur, uioPending,
                    uioEnabled, st, completed_desc, observed, raised,
                    streamDesc, srcStarted, outcome, runs, stopCalls,
                    afterFirst, resetPulses, beforeStop, lateIrq,
                    streamRunning, unfenced, destFilled, beforeReset, access,
                    handlerCalls, passes, testedAt, streamVars >>

\* munmap when dma_regs is set, close when mem_fd is set; both are reset.
DMA_UnmapRegisters ==
    /\ routine = "map_api"
    /\ pc = "m_idle"
    /\ apiCalls < MaxApiCalls
    /\ apiCalls' = apiCalls + 1
    /\ dma_regs' = NULL
    /\ mem_fd' = -1
    /\ lastCall' = [fn |-> "DMA_UnmapRegisters",
                    sys |-> (IF dma_regs # NULL
                             THEN << <<"munmap", TRUE>> >> ELSE << >>)
                            \o (IF mem_fd # -1
                                THEN << <<"close", TRUE>> >> ELSE << >>),
                    ret |-> lastCall.ret]
    /\ UNCHANGED << routine, pc, numBuffers, num_transfers, i, j, descConfig,
                    descNext, bodyWritten, streamAddr, startReg, maskReg,
                    status, ctrlConfig, hwRunning, hwCur, uioPending,
                    uioEnabled, st, completed_desc, observed, raised,
                    streamDesc, srcStarted, outcome, runs, stopCalls,
                    afterFirst, resetPulses, beforeStop, lateIrq,
                    streamRunning, unfenced, destFilled, beforeReset, access,
                    handlerCalls, passes, testedAt, streamVars >>

\* The entry of DMA_RunMemoryLoopbackTest: return 0 when dma_regs is NULL;
\* otherwise the two test buffers are mapped, and the test returns 0 when
\* either mapping fails, after unmapping the other.
Loop_Entry ==
    /\ routine = "map_api"
    /\ pc = "m_idle"
    /\ apiCalls < MaxApiCalls
    /\ apiCalls' = apiCalls + 1
    /\ IF dma_regs = NULL
       THEN /\ lastCall' = [fn |-> "DMA_RunMemoryLoopbackTest",
                            sys |-> << >>, ret |-> 0]
            /\ UNCHANGED << routine, pc >>
       ELSE \E src_ok \in BOOLEAN, dest_ok \in BOOLEAN :
              /\ lastCall' =
                   [fn |-> "DMA_RunMemoryLoopbackTest",
                    sys |-> << <<"mmap", src_ok>>, <<"mmap", dest_ok>> >>
                            \o (IF src_ok /\ ~dest_ok
                                THEN << <<"munmap", TRUE>> >> ELSE << >>)
                            \o (IF dest_ok /\ ~src_ok
                                THEN << <<"munmap", TRUE>> >> ELSE << >>),
                    ret |-> 0]
              /\ IF src_ok /\ dest_ok
                 THEN routine' = "loopback" /\ pc' = "l_body"
                 ELSE UNCHANGED << routine, pc >>
    /\ UNCHANGED << numBuffers, num_transfers, i, j, descConfig, descNext,
                    bodyWritten, streamAddr, startReg, maskReg, status,
                    ctrlConfig, hwRunning, hwCur, uioPending, uioEnabled, st,
                    completed_desc, observed, raised, streamDesc, srcStarted,
                    outcome, runs, stopCalls, afterFirst, resetPulses,
                    beforeStop, lateIrq, streamRunning, unfenced, destFilled,
                    beforeReset, access, handlerCalls, passes, testedAt,
                    mem_fd, dma_regs, streamVars >>

InitMapApi ==
    /\ routine = "map_api"
    /\ pc = "m_idle"
    /\ numBuffers = 1
    /\ num_transfers = 1
    /\ i = 0
    /\ j = 0
    /\ st = NoStatus
    /\ completed_desc = 0
    /\ observed = << >>
    /\ InitRegs

NextMapApi ==
    \/ DMA_MapRegisters \/ DMA_UnmapRegisters \/ Loop_Entry
    \/ Loop_Cpu \/ HwProcess

SpecMapApi == InitMapApi /\ [][NextMapApi]_vars

\* The registers of the controller and what the controller does with them.
Registers ==
    << descConfig, descNext, bodyWritten, streamAddr, startReg, maskReg,
       status, hwRunning, hwCur >>

\* A call of fn is made in this step.
Called(fn) == apiCalls' = apiCalls + 1 /\ lastCall'.fn = fn

\* One of the system calls of the last call failed.
SysCallFailed == \E k \in 1 .. Len(lastCall.sys) : ~lastCall.sys[k][2]

\* C39: between calls dma_regs is non-NULL exactly when mem_fd is not -1;
\* a DMA_MapRegisters whose open or mmap fails returns 0 and leaves mem_fd
\* at -1 and dma_regs NULL; a DMA_MapRegisters on a mapped driver returns 1
\* and makes no system call; DMA_RunMemoryLoopbackTest on an unmapped driver
\* returns 0 at once, with no system call and no register touched.
C39_MappedIffOpen ==
    /\ []((dma_regs # NULL) <=> (mem_fd # -1))
    /\ []((lastCall.fn = "DMA_MapRegisters" /\ SysCallFailed) =>
            (lastCall.ret = 0 /\ mem_fd = -1 /\ dma_regs = NULL))
    /\ [][(Called("DMA_MapRegisters") /\ mem_fd # -1) =>
            /\ lastCall'.ret = 1
            /\ lastCall'.sys = << >>
            /\ UNCHANGED << mem_fd, dma_regs >>]_vars
    /\ [][(Called("DMA_RunMemoryLoopbackTest") /\ mem_fd = -1) =>
            /\ lastCall'.ret = 0
            /\ lastCall'.sys = << >>
            /\ UNCHANGED << Registers, routine, pc >>]_vars

\* The third call of the interface is a DMA_MapRegisters on an unmapped
\* driver whose mmap fails.
C39_Witness ==
    /\ routine = "map_api"
    /\ apiCalls = 3
    /\ lastCall.fn = "DMA_MapRegisters"
    /\ lastCall.sys = << <<"open", TRUE>>, <<"mmap", FALSE>>, <<"close", TRUE>> >>
    /\ lastCall.ret = 0
    /\ mem_fd = -1
    /\ dma_regs = NULL

====
